---- MODULE Spec2Model ----
(***************************************************************************)
(* Model of the execution-trace engine of trace-my-py (GlassBox).          *)
(*                                                                         *)
(* The JavaScript entry point runAndTrace loads a Python tracer into       *)
(* Pyodide and calls run_with_trace(user_code).  run_with_trace arms       *)
(* sys.settrace(tracer), exec()s the user's source and returns trace_data, *)
(* error_message and scope_info as JSON.  The host runtime (CPython) is    *)
(* modelled by a small interpreter over a line-numbered instruction list:  *)
(* it delivers the 'call', 'line', 'exception' and 'return' callbacks in   *)
(* the order CPython delivers them.                                        *)
(*                                                                         *)
(* Text is a sequence of tokens; the token "\n" is a line break.           *)
(***************************************************************************)
EXTENDS Integers, Sequences, FiniteSets, TLC

VARIABLES
    phase,            \* position of the pending runAndTrace call
    code,             \* the source passed to runAndTrace (an id of Sources)
    user_code,        \* Python global: the program text handed to run_with_trace
    scope_info,       \* Python global: the scope analysis of the program
    runs,             \* number of runAndTrace calls made so far
    pyodideInstance,  \* JS module variable: TRUE once loadPyodide() resolved
    printOutput,      \* JS local of runAndTrace: text captured from stdout/stderr
    trace_data,       \* Python global: scoped key -> sequence of events
    prev_vars,        \* Python global: scoped key -> last recorded repr
    frame_prev_line,  \* Python global: id(frame) -> last line visited
    error_message,    \* Python global: None or the summary line of the failure
    hooked,           \* TRUE while sys.settrace(tracer) is armed
    stack,            \* call stack of the user's program (last = active frame)
    globals,          \* the globals dict handed to exec()
    exc,              \* the exception currently propagating, or NoExc
    jsonString,       \* value returned by run_with_trace, not yet parsed
    result,           \* settlement of the last runAndTrace promise
    delivered,        \* per source: the last result resolved to the caller
    \* The page (App.jsx): React state as last committed, refs, listeners.
    editorText,       \* content of the Monaco editor (an id of Sources)
    running,          \* state: a run is in flight; the Run button is disabled
    hasRun,           \* state: a run has completed since the last invalidation
    output,           \* state: text of the output panel
    allTraceData,     \* state: trace data shown
    scopeInfo,        \* state: scope info of the last run
    errorMessage,     \* state: error message of the last run, or null
    selectedVar,      \* state: scoped key chosen, "" for none
    hoveredVar,       \* state: scoped key under the mouse, or null
    contentListener,  \* the onDidChangeModelContent listener registered by the
                      \* [hasRun] effect and the hasRun it closed over
    lineToVarMapRef,  \* ref: line -> scoped key, rebuilt by an effect
    scopeInfoRef,     \* ref: the scope info the highlighting reads
    selectedVarRef,   \* ref: the selected scoped key the mouse handlers read
    decorationsRef,   \* ref: the decorations shown in the editor
    pendingEffects,   \* effects of the last commit that have not run yet
    pendingCalls,     \* runAndTrace calls of handleRun not yet settled
    diagramRef,       \* ref: innerHTML of the diagram pane
    rendering         \* mermaid.render calls of renderDiagram not yet settled

UIVars == <<editorText, running, hasRun, output, allTraceData, scopeInfo, errorMessage,
            selectedVar, hoveredVar, contentListener, lineToVarMapRef, scopeInfoRef,
            selectedVarRef, decorationsRef, pendingEffects, pendingCalls,
            diagramRef, rendering>>

DiagramVars == <<diagramRef, rendering>>

vars == <<phase, code, user_code, scope_info, runs, pyodideInstance, printOutput, trace_data,
          prev_vars, frame_prev_line, error_message, hooked, stack, globals,
          exc, jsonString, result, delivered, UIVars>>

-----------------------------------------------------------------------------
(* Bounds *)

MaxRuns == 3       \* runAndTrace calls per behaviour
NumAddrs == 3      \* distinct addresses id(frame) can take

Addrs == 1..NumAddrs

-----------------------------------------------------------------------------
(* Values, operands, instructions, exceptions *)

IntVal(n) == [t |-> "int", n |-> n, code |-> ""]
FuncVal(c) == [t |-> "func", n |-> 0, code |-> c]
StrVal(x) == [t |-> "str", n |-> 0, code |-> x]
ModuleVal(m) == [t |-> "module", n |-> 0, code |-> m]
Unbound == [t |-> "unbound", n |-> 0, code |-> ""]
\* An instance of a class made on the spot with type(...): kind "badrepr" has
\* a __repr__ that raises, kind "badclass" is callable and has a __class__
\* property that raises.
ObjVal(kind) == [t |-> "object", n |-> 0, code |-> kind]
ClassVal(name) == [t |-> "class", n |-> 0, code |-> name]

C(n) == [isvar |-> FALSE, name |-> "", n |-> n]
V(x) == [isvar |-> TRUE, name |-> x, n |-> 0]
K(kind) == [isvar |-> FALSE, name |-> kind, n |-> 0]

NoExc == [etype |-> "", msg |-> <<>>, isException |-> FALSE]
Exc(etype, msg) == [etype |-> etype, msg |-> msg, isException |-> TRUE]
BaseExc(etype, msg) == [etype |-> etype, msg |-> msg, isException |-> FALSE]

\* One instruction of the user's program.  Several instructions may share a
\* line ("x = 5; g()" or "g(x := 5)").  var = "" means no binding is made.
InsB(line, op, var, a, b) ==
    [line |-> line, op |-> op, var |-> var, a |-> a, b |-> b, tgt |-> 0, e |-> NoExc]
Ins(line, op, var, a) == InsB(line, op, var, a, C(0))
InsJ(line, op, var, a, tgt) ==
    [line |-> line, op |-> op, var |-> var, a |-> a, b |-> C(0), tgt |-> tgt, e |-> NoExc]
InsR(line, e) ==
    [line |-> line, op |-> "raise", var |-> "", a |-> C(0), b |-> C(0), tgt |-> 0, e |-> e]

CodeObj(name, kind, params, varnames, cellvars, freevars, parent, instrs) ==
    [co_name |-> name, co_filename |-> "<string>", kind |-> kind,
     params |-> params, co_varnames |-> varnames, co_cellvars |-> cellvars,
     co_freevars |-> freevars, parent |-> parent, instrs |-> instrs, origin |-> "user"]

Module(instrs) == CodeObj("<module>", "module", <<>>, {}, {}, {}, "", instrs)
Function(name, params, varnames, instrs) ==
    CodeObj(name, "function", params, varnames, {}, {}, "", instrs)

\* A function of the standard library: compiled from the file filename, or
\* by the library from a string it built ("<string>").
LibFunction(name, filename, params, varnames, instrs) ==
    [Function(name, params, varnames, instrs) EXCEPT !.co_filename = filename,
                                                     !.origin = "library"]

-----------------------------------------------------------------------------
(* The syntax tree ast.parse makes of a source: its nodes in source order,
   each with the index of its parent (0 for the Module node).  Only what the
   ScopeAnalyzer reads is kept: the node's type, its lines, the name and the
   positional parameters of a function definition, the targets that are plain
   names, the names of a global statement. *)

AstNode(type, parent, lineno, end_lineno, name, args, targets, names) ==
    [type |-> type, parent |-> parent, lineno |-> lineno, end_lineno |-> end_lineno,
     name |-> name, args |-> args, vararg |-> "", kwarg |-> "", targets |-> targets,
     names |-> names]

FunctionDef(parent, name, args, lineno, end_lineno) ==
    AstNode("FunctionDef", parent, lineno, end_lineno, name, args, <<>>, <<>>)
Assign(parent, targets, lineno) ==
    AstNode("Assign", parent, lineno, lineno, "", <<>>, targets, <<>>)
AugAssign(parent, target, lineno) ==
    AstNode("AugAssign", parent, lineno, lineno, "", <<>>, <<target>>, <<>>)
For(parent, target, lineno, end_lineno) ==
    AstNode("For", parent, lineno, end_lineno, "", <<>>, <<target>>, <<>>)
NamedExpr(parent, target, lineno) ==
    AstNode("NamedExpr", parent, lineno, lineno, "", <<>>, <<target>>, <<>>)
Global(parent, names, lineno) ==
    AstNode("Global", parent, lineno, lineno, "", <<>>, <<>>, names)
\* A chain of binary operations 1 + 1 + ... + 1 nested as deep as the
\* interpreter's recursion limit lets the compiler go.
BinOp(parent, lineno) ==
    AstNode("BinOp", parent, lineno, lineno, "", <<>>, <<>>, <<>>)
\* Any other statement or expression: Expr, Return, Pass, Try, Raise, ImportFrom.
Stmt(parent, lineno, end_lineno) ==
    AstNode("Stmt", parent, lineno, end_lineno, "", <<>>, <<>>, <<>>)

-----------------------------------------------------------------------------
(* The sources submitted to runAndTrace *)

\* x = 0 / for i in range(3): / x += i / print(x)
SrcLoop ==
    [syntaxOK |-> TRUE, nlines |-> 4,
     tree |-> <<Assign(0, <<"x">>, 1), For(0, "i", 2, 3), AugAssign(2, "x", 3), Stmt(0, 4, 4)>>,
     code |->
       "<module>" :> Module(<<Ins(1, "set", "x", C(0)),
                              InsJ(2, "for", "i", C(3), 5),
                              Ins(3, "aug", "x", V("i")),
                              InsJ(3, "jmp", "", C(0), 2),
                              Ins(4, "print", "", V("x"))>>)]

\* x = 1 / def f(): / x = 2 / return x / f() / x = 3
SrcShadow ==
    [syntaxOK |-> TRUE, nlines |-> 6,
     tree |-> <<Assign(0, <<"x">>, 1), FunctionDef(0, "f", <<>>, 2, 4), Assign(2, <<"x">>, 3),
               Stmt(2, 4, 4), Stmt(0, 5, 5), Assign(0, <<"x">>, 6)>>,
     code |->
       "<module>" :> Module(<<Ins(1, "set", "x", C(1)),
                              Ins(2, "def", "f", C(0)),
                              Ins(5, "call", "f", C(0)),
                              Ins(6, "set", "x", C(3))>>)
       @@ "f" :> Function("f", <<>>, {"x"},
                          <<Ins(3, "set", "x", C(2)),
                            Ins(4, "ret", "", V("x"))>>)]

\* def f(): / global x / x = 2 / x = 1 / f()
SrcGlobal ==
    [syntaxOK |-> TRUE, nlines |-> 5,
     tree |-> <<FunctionDef(0, "f", <<>>, 1, 3), Global(1, <<"x">>, 2), Assign(1, <<"x">>, 3),
               Assign(0, <<"x">>, 4), Stmt(0, 5, 5)>>,
     code |->
       "<module>" :> Module(<<Ins(1, "def", "f", C(0)),
                              Ins(4, "set", "x", C(1)),
                              Ins(5, "call", "f", C(0))>>)
       @@ "f" :> Function("f", <<>>, {},
                          <<Ins(3, "set", "x", C(2))>>)]

\* x = 1 / def f(): / x = 2 / def g(): / return x / return g() / f()
\* f's x is captured by g: it is a cell variable of f and a free variable of g.
SrcClosure ==
    [syntaxOK |-> TRUE, nlines |-> 7,
     tree |-> <<Assign(0, <<"x">>, 1), FunctionDef(0, "f", <<>>, 2, 6), Assign(2, <<"x">>, 3),
               FunctionDef(2, "g", <<>>, 4, 5), Stmt(4, 5, 5), Stmt(2, 6, 6), Stmt(0, 7, 7)>>,
     code |->
       "<module>" :> Module(<<Ins(1, "set", "x", C(1)),
                              Ins(2, "def", "f", C(0)),
                              Ins(7, "call", "f", C(0))>>)
       @@ "f" :> CodeObj("f", "function", <<>>, {"g"}, {"x"}, {}, "",
                         <<Ins(3, "set", "x", C(2)),
                           Ins(4, "def", "g", C(0)),
                           Ins(6, "call", "g", C(0)),
                           Ins(6, "ret", "", C(0))>>)
       @@ "g" :> CodeObj("g", "function", <<>>, {}, {}, {"x"}, "f",
                         <<Ins(5, "ret", "", V("x"))>>)]

\* x = 1 / def g(a): / pass / def f(): / global x / g(x := 5) / f()
SrcWalrusCall ==
    [syntaxOK |-> TRUE, nlines |-> 7,
     tree |-> <<Assign(0, <<"x">>, 1), FunctionDef(0, "g", <<"a">>, 2, 3), Stmt(2, 3, 3),
               FunctionDef(0, "f", <<>>, 4, 6), Global(4, <<"x">>, 5), Stmt(4, 6, 6),
               NamedExpr(6, "x", 6), Stmt(0, 7, 7)>>,
     code |->
       "<module>" :> Module(<<Ins(1, "set", "x", C(1)),
                              Ins(2, "def", "g", C(0)),
                              Ins(4, "def", "f", C(0)),
                              Ins(7, "call", "f", C(0))>>)
       @@ "f" :> Function("f", <<>>, {},
                          <<Ins(6, "set", "x", C(5)),
                            Ins(6, "call", "g", V("x"))>>)
       @@ "g" :> Function("g", <<"a">>, {"a"},
                          <<Ins(3, "pass", "", C(0))>>)]

\* def f(a): / return 1 // a / f(0)
SrcParamFault ==
    [syntaxOK |-> TRUE, nlines |-> 3,
     tree |-> <<FunctionDef(0, "f", <<"a">>, 1, 2), Stmt(1, 2, 2), Stmt(0, 3, 3)>>,
     code |->
       "<module>" :> Module(<<Ins(1, "def", "f", C(0)),
                              Ins(3, "call", "f", C(0))>>)
       @@ "f" :> Function("f", <<"a">>, {"a"},
                          <<InsB(2, "div", "", C(1), V("a")),
                            Ins(2, "ret", "", C(0))>>)]

\* x = 1 / x = 5; 1 // 0
SrcSemiFault ==
    [syntaxOK |-> TRUE, nlines |-> 2,
     tree |-> <<Assign(0, <<"x">>, 1), Assign(0, <<"x">>, 2), Stmt(0, 2, 2)>>,
     code |->
       "<module>" :> Module(<<Ins(1, "set", "x", C(1)),
                              Ins(2, "set", "x", C(5)),
                              InsB(2, "div", "", C(1), C(0))>>)]

\* print(1)
SrcNoAssign ==
    [syntaxOK |-> TRUE, nlines |-> 1,
     tree |-> <<Stmt(0, 1, 1)>>,
     code |->
       "<module>" :> Module(<<Ins(1, "print", "", C(1))>>)]

\* print(1) / 1 // 0
SrcNoAssignFault ==
    [syntaxOK |-> TRUE, nlines |-> 2,
     tree |-> <<Stmt(0, 1, 1), Stmt(0, 2, 2)>>,
     code |->
       "<module>" :> Module(<<Ins(1, "print", "", C(1)),
                              InsB(2, "div", "", C(1), C(0))>>)]

\* x = (1      -- does not compile
SrcSyntax ==
    [syntaxOK |-> FALSE, nlines |-> 1,
     tree |-> <<>>,
     code |->
       "<module>" :> Module(<<Ins(1, "set", "x", C(1))>>)]

\* x = 1 / raise SystemExit
SrcSysExit ==
    [syntaxOK |-> TRUE, nlines |-> 2,
     tree |-> <<Assign(0, <<"x">>, 1), Stmt(0, 2, 2)>>,
     code |->
       "<module>" :> Module(<<Ins(1, "set", "x", C(1)),
                              InsR(2, BaseExc("SystemExit", <<>>))>>)]

\* x = 1 / raise ValueError("a\n")
SrcNewlineMsg ==
    [syntaxOK |-> TRUE, nlines |-> 2,
     tree |-> <<Assign(0, <<"x">>, 1), Stmt(0, 2, 2)>>,
     code |->
       "<module>" :> Module(<<Ins(1, "set", "x", C(1)),
                              InsR(2, Exc("ValueError", <<"a", "\n">>))>>)]

\* x = 1 / x = 1 / y = 2
SrcDup ==
    [syntaxOK |-> TRUE, nlines |-> 3,
     tree |-> <<Assign(0, <<"x">>, 1), Assign(0, <<"x">>, 2), Assign(0, <<"y">>, 3)>>,
     code |->
       "<module>" :> Module(<<Ins(1, "set", "x", C(1)),
                              Ins(2, "set", "x", C(1)),
                              Ins(3, "set", "y", C(2))>>)]

\* x = 1 / try: / 1 // 0 / finally: / x = 5
\* The try instruction names where the finally clause starts; the clause ends
\* by re-raising the failure it interrupted.
SrcFinally ==
    [syntaxOK |-> TRUE, nlines |-> 5,
     tree |-> <<Assign(0, <<"x">>, 1), Stmt(0, 2, 5), Stmt(2, 3, 3), Assign(2, <<"x">>, 5)>>,
     code |->
       "<module>" :> Module(<<Ins(1, "set", "x", C(1)),
                              InsJ(2, "try", "", C(0), 4),
                              InsB(3, "div", "", C(1), C(0)),
                              Ins(5, "set", "x", C(5)),
                              Ins(5, "reraise", "", C(0))>>)]

\* def f(a): / b = a / return b / f(1) / f(1)
SrcTwice ==
    [syntaxOK |-> TRUE, nlines |-> 5,
     tree |-> <<FunctionDef(0, "f", <<"a">>, 1, 3), Assign(1, <<"b">>, 2), Stmt(1, 3, 3),
               Stmt(0, 4, 4), Stmt(0, 5, 5)>>,
     code |->
       "<module>" :> Module(<<Ins(1, "def", "f", C(0)),
                              Ins(4, "call", "f", C(1)),
                              Ins(5, "call", "f", C(1))>>)
       @@ "f" :> Function("f", <<"a">>, {"a", "b"},
                          <<Ins(2, "set", "b", V("a")),
                            Ins(3, "ret", "", V("b"))>>)]

\* x = 1 / y = type('B', (), {'__repr__': lambda s: 1 // 0})() / x = 2
SrcBadRepr ==
    [syntaxOK |-> TRUE, nlines |-> 3,
     tree |-> <<Assign(0, <<"x">>, 1), Assign(0, <<"y">>, 2), Assign(0, <<"x">>, 3)>>,
     code |->
       "<module>" :> Module(<<Ins(1, "set", "x", C(1)),
                              Ins(2, "new", "y", K("badrepr")),
                              Ins(3, "set", "x", C(2))>>)]

\* x = 1
\* y = type('B', (), {'__call__': lambda s: 0,
\*                    '__class__': property(lambda s: 1 // 0)})()
\* x = 2
SrcBadClass ==
    [syntaxOK |-> TRUE, nlines |-> 3,
     tree |-> <<Assign(0, <<"x">>, 1), Assign(0, <<"y">>, 2), Assign(0, <<"x">>, 3)>>,
     code |->
       "<module>" :> Module(<<Ins(1, "set", "x", C(1)),
                              Ins(2, "new", "y", K("badclass")),
                              Ins(3, "set", "x", C(2))>>)]

\* _t = 1 / json = 2 / def x(): / pass / x = 3
SrcExcluded ==
    [syntaxOK |-> TRUE, nlines |-> 5,
     tree |-> <<Assign(0, <<"_t">>, 1), Assign(0, <<"json">>, 2), FunctionDef(0, "x", <<>>, 3, 4),
               Stmt(3, 4, 4), Assign(0, <<"x">>, 5)>>,
     code |->
       "<module>" :> Module(<<Ins(1, "set", "_t", C(1)),
                              Ins(2, "set", "json", C(2)),
                              Ins(3, "def", "x", C(0)),
                              Ins(5, "set", "x", C(3))>>)
       @@ "x" :> Function("x", <<>>, {}, <<Ins(4, "pass", "", C(0))>>)]

\* from copy import copy / x = 1 / copy(x)
\* copy is a function of copy.py: cls = type(x) / ... / return x
SrcLib ==
    [syntaxOK |-> TRUE, nlines |-> 3,
     tree |-> <<Stmt(0, 1, 1), Assign(0, <<"x">>, 2), Stmt(0, 3, 3)>>,
     code |->
       "<module>" :> Module(<<Ins(1, "import", "copy", C(0)),
                              Ins(2, "set", "x", C(1)),
                              Ins(3, "call", "copy", V("x"))>>)
       @@ "copy" :> LibFunction("copy", "copy.py", <<"x">>, {"x", "cls"},
                                <<Ins(1, "set", "cls", C(0)),
                                  Ins(2, "ret", "", V("x"))>>)]

\* from collections import namedtuple / P = namedtuple('P', 'x y') / P(1, 1)
\* P.__new__ is the function collections compiles with eval from the string
\* "lambda _cls, x, y: _tuple_new(_cls, (x, y))".
SrcNamedTuple ==
    [syntaxOK |-> TRUE, nlines |-> 3,
     tree |-> <<Stmt(0, 1, 1), Assign(0, <<"P">>, 2), Stmt(0, 3, 3)>>,
     code |->
       "<module>" :> Module(<<Ins(1, "import", "namedtuple", C(0)),
                              Ins(2, "class", "P", C(0)),
                              Ins(3, "call", "P", C(1))>>)
       @@ "P" :> LibFunction("<lambda>", "<string>", <<"_cls", "x", "y">>,
                             {"_cls", "x", "y"},
                             <<Ins(1, "ret", "", V("x"))>>)]

\* for i in range(1): / def f(): / y = i / f()
SrcDefInFor ==
    [syntaxOK |-> TRUE, nlines |-> 4,
     tree |-> <<For(0, "i", 1, 4), FunctionDef(1, "f", <<>>, 2, 3), Assign(2, <<"y">>, 3),
               Stmt(1, 4, 4)>>,
     code |->
       "<module>" :> Module(<<InsJ(1, "for", "i", C(1), 5),
                              Ins(2, "def", "f", C(0)),
                              Ins(4, "call", "f", C(0)),
                              InsJ(4, "jmp", "", C(0), 1)>>)
       @@ "f" :> Function("f", <<>>, {"y"},
                          <<Ins(3, "set", "y", V("i"))>>)]

\* def f(a): / b = c = a / return b / f(1)
SrcChain ==
    [syntaxOK |-> TRUE, nlines |-> 4,
     tree |-> <<FunctionDef(0, "f", <<"a">>, 1, 3), Assign(1, <<"b", "c">>, 2), Stmt(1, 3, 3),
               Stmt(0, 4, 4)>>,
     code |->
       "<module>" :> Module(<<Ins(1, "def", "f", C(0)),
                              Ins(4, "call", "f", C(1))>>)
       @@ "f" :> Function("f", <<"a">>, {"a", "b", "c"},
                          <<Ins(2, "set", "b", V("a")),
                            Ins(2, "set", "c", V("a")),
                            Ins(3, "ret", "", V("b"))>>)]

\* def f(): / x = 1 / def g(): / y = 2 / g() / f()
SrcNested ==
    [syntaxOK |-> TRUE, nlines |-> 6,
     tree |-> <<FunctionDef(0, "f", <<>>, 1, 5), Assign(1, <<"x">>, 2),
               FunctionDef(1, "g", <<>>, 3, 4), Assign(3, <<"y">>, 4), Stmt(1, 5, 5),
               Stmt(0, 6, 6)>>,
     code |->
       "<module>" :> Module(<<Ins(1, "def", "f", C(0)),
                              Ins(6, "call", "f", C(0))>>)
       @@ "f" :> Function("f", <<>>, {"x", "g"},
                          <<Ins(2, "set", "x", C(1)),
                            Ins(3, "def", "g", C(0)),
                            Ins(5, "call", "g", C(0))>>)
       @@ "g" :> CodeObj("g", "function", <<>>, {"y"}, {}, {}, "f",
                         <<Ins(4, "set", "y", C(2))>>)]

\* x = 1 / y = 1 + 1 + 1      -- the sum nested at the recursion limit
SrcDeep ==
    [syntaxOK |-> TRUE, nlines |-> 2,
     tree |-> <<Assign(0, <<"x">>, 1), Assign(0, <<"y">>, 2), BinOp(2, 2)>>,
     code |->
       "<module>" :> Module(<<Ins(1, "set", "x", C(1)),
                              Ins(2, "set", "y", C(3))>>)]

\* n = input() / x = n
\* The reader answers the prompt with 5.
SrcAsk ==
    [syntaxOK |-> TRUE, nlines |-> 2,
     tree |-> <<Assign(0, <<"n">>, 1), Assign(0, <<"x">>, 2)>>,
     code |->
       "<module>" :> Module(<<Ins(1, "input", "n", C(5)),
                              Ins(2, "set", "x", V("n"))>>)]

Sources ==
    "loop" :> SrcLoop @@ "shadow" :> SrcShadow @@ "global" :> SrcGlobal
    @@ "closure" :> SrcClosure @@ "walruscall" :> SrcWalrusCall
    @@ "paramfault" :> SrcParamFault @@ "semifault" :> SrcSemiFault
    @@ "noassign" :> SrcNoAssign @@ "noassignfault" :> SrcNoAssignFault
    @@ "syntax" :> SrcSyntax @@ "sysexit" :> SrcSysExit
    @@ "newlinemsg" :> SrcNewlineMsg @@ "dup" :> SrcDup
    @@ "finally" :> SrcFinally @@ "twice" :> SrcTwice
    @@ "badrepr" :> SrcBadRepr @@ "badclass" :> SrcBadClass
    @@ "excluded" :> SrcExcluded @@ "lib" :> SrcLib @@ "namedtuple" :> SrcNamedTuple
    @@ "ask" :> SrcAsk
    @@ "definfor" :> SrcDefInFor @@ "chain" :> SrcChain @@ "nested" :> SrcNested
    @@ "deep" :> SrcDeep

SourceIds == DOMAIN Sources

\* The sources the runs of Spec submit, and those the runs of SpecCorner submit.
RunSources ==
    {"loop", "shadow", "global", "closure", "walruscall", "paramfault", "semifault",
     "noassign", "noassignfault", "syntax", "sysexit", "newlinemsg", "dup", "finally",
     "twice"}

CornerSources ==
    {"badrepr", "badclass", "excluded", "lib", "namedtuple", "definfor", "chain", "nested",
     "deep", "ask", "finally", "sysexit"}

\* code.includes(text), for the two texts preprocessCode looks for.
includes(src, text) ==
    CASE text = "input(" -> src \in {"ask"}
      [] text = "import ast" -> FALSE

\* The program of the text "import ast\n" + code: every line of code is one
\* line further down, behind the import.
MovedDown(node) ==
    [node EXCEPT !.lineno = node.lineno + 1, !.end_lineno = node.end_lineno + 1]

MovedInstrs(instrs, by) ==
    [j \in 1..Len(instrs) |->
        [instrs[j] EXCEPT !.line = instrs[j].line + 1,
                          !.tgt = IF instrs[j].tgt = 0 THEN 0 ELSE instrs[j].tgt + by]]

PrependImportAst(prog) ==
    [prog EXCEPT
       !.nlines = prog.nlines + 1,
       !.tree = <<Stmt(0, 1, 1)>>
                \o [i \in 1..Len(prog.tree) |->
                      [MovedDown(prog.tree[i]) EXCEPT
                         !.parent = IF prog.tree[i].parent = 0 THEN 0
                                    ELSE prog.tree[i].parent + 1]],
       !.code = [c \in DOMAIN prog.code |->
                   [prog.code[c] EXCEPT
                      !.instrs = IF c = "<module>"
                                 THEN <<Ins(1, "importmodule", "ast", C(0))>>
                                      \o MovedInstrs(prog.code[c].instrs, 1)
                                 ELSE MovedInstrs(prog.code[c].instrs, 0)]]]

\* processedCode.replace(/\binput\s*\(\s*\)/g, 'ast.literal_eval(input())')
ReplaceInput(prog) ==
    [prog EXCEPT
       !.code = [c \in DOMAIN prog.code |->
                   [prog.code[c] EXCEPT
                      !.instrs = [j \in 1..Len(prog.code[c].instrs) |->
                                    IF prog.code[c].instrs[j].op = "input"
                                    THEN [prog.code[c].instrs[j] EXCEPT !.op = "literal_eval"]
                                    ELSE prog.code[c].instrs[j]]]]]

preprocessCode(src) ==
    ReplaceInput(IF includes(src, "input(") /\ ~includes(src, "import ast")
                 THEN PrependImportAst(Sources[src])
                 ELSE Sources[src])

-----------------------------------------------------------------------------
(* Text helpers *)

EmptyDict == [k \in {} |-> ""]

Null == [null |-> TRUE, str |-> ""]
Str(s) == [null |-> FALSE, str |-> s]

Last(seq) == seq[Len(seq)]

RECURSIVE Join(_)
Join(line) == IF line = <<>> THEN "" ELSE Head(line) \o Join(Tail(line))

\* str.splitlines(): a trailing line break opens no further line.
RECURSIVE SplitFrom(_, _, _, _)
SplitFrom(text, i, cur, started) ==
    IF i > Len(text) THEN (IF started THEN <<cur>> ELSE <<>>)
    ELSE IF text[i] = "\n" THEN <<cur>> \o SplitFrom(text, i + 1, <<>>, FALSE)
    ELSE SplitFrom(text, i + 1, Append(cur, text[i]), TRUE)

splitlines(text) == SplitFrom(text, 1, <<>>, FALSE)

\* traceback.format_exc(): the header, then "Type: message" (or "Type" alone
\* when str(e) is empty), then a line break.
format_exc(e) ==
    <<"Traceback (most recent call last):", "\n">>
    \o (IF e.msg = <<>> THEN <<e.etype>> ELSE <<e.etype \o ": ">> \o e.msg)
    \o <<"\n">>

ErrorMarker == "[X] "   \* stands for the cross-mark character and a space

-----------------------------------------------------------------------------
(* ScopeAnalyzer and analyze_scopes *)

Range(seq) == {seq[j] : j \in 1..Len(seq)}

\* ast.walk(n) yields node i: i is n or lies below it.
RECURSIVE Within(_, _, _)
Within(tree, i, n) ==
    IF i = n THEN TRUE
    ELSE IF i = 0 THEN FALSE
    ELSE Within(tree, tree[i].parent, n)

walk(tree, n) == {i \in 1..Len(tree) : Within(tree, i, n)}

\* visit_FunctionDef is called for the function definitions that are children
\* of the module, and for those that are children of a visited definition.
RECURSIVE Visited(_, _)
Visited(tree, i) ==
    /\ tree[i].type = "FunctionDef"
    /\ tree[i].parent = 0 \/ Visited(tree, tree[i].parent)

VisitedDefs(tree) == {i \in 1..Len(tree) : Visited(tree, i)}

\* The name a node of collect_locals' second walk binds, "" for none: of an
\* Assign the last target that is a name.
var_name(node) ==
    IF node.type \in {"Assign", "AugAssign", "For", "NamedExpr"} /\ node.targets # <<>>
    THEN Last(node.targets)
    ELSE ""

global_vars(tree, n) ==
    UNION {Range(tree[i].names) : i \in {j \in walk(tree, n) : tree[j].type = "Global"}}

collect_locals(tree, n) ==
    Range(tree[n].args)
    \cup ({tree[n].vararg, tree[n].kwarg} \ {""})
    \cup ({var_name(tree[i]) : i \in walk(tree, n)} \ ({""} \cup global_vars(tree, n)))

\* The visited definition, if any, that marked line l last: they are visited
\* in source order, an inner one after the one around it.
Marking(tree, l) ==
    {i \in VisitedDefs(tree) : tree[i].lineno <= l /\ l <= tree[i].end_lineno}

Max(S) == CHOOSE m \in S : \A o \in S : o <= m

line_to_scope(tree, total_lines) ==
    [l \in 1..(total_lines + 1) |->
        IF Marking(tree, l) = {} THEN "global" ELSE tree[Max(Marking(tree, l))].name]

\* The names the statements directly under the module bind (analyze), and
\* the names of the visited definitions (visit_FunctionDef: parent_scope is
\* always 'global').
ModuleLocals(tree) ==
    {tree[i].name : i \in VisitedDefs(tree)}
    \cup UNION {Range(tree[i].targets) :
                  i \in {j \in 1..Len(tree) :
                           tree[j].parent = 0 /\ tree[j].type \in {"Assign", "AugAssign", "For"}}}

scope_to_locals(tree) ==
    [sc \in {"global"} \cup {tree[i].name : i \in VisitedDefs(tree)} |->
        IF sc = "global" THEN ModuleLocals(tree)
        ELSE collect_locals(tree, Max({i \in VisitedDefs(tree) : tree[i].name = sc}))]

\* The global statements collect_locals finds under the visited definitions.
GlobalStmts(tree) ==
    {i \in 1..Len(tree) :
        tree[i].type = "Global" /\ \E n \in VisitedDefs(tree) : Within(tree, i, n)}

RECURSIVE AddNew(_, _)
AddNew(list, names) ==
    IF names = <<>> THEN list
    ELSE AddNew(IF Head(names) \in Range(list) THEN list ELSE Append(list, Head(names)),
                Tail(names))

RECURSIVE DeclaredOn(_, _, _)
DeclaredOn(tree, l, i) ==
    IF i = 0 THEN <<>>
    ELSE IF i \in GlobalStmts(tree) /\ tree[i].lineno = l
    THEN AddNew(DeclaredOn(tree, l, i - 1), tree[i].names)
    ELSE DeclaredOn(tree, l, i - 1)

global_declarations(tree) ==
    [l \in {tree[i].lineno : i \in GlobalStmts(tree)} |-> DeclaredOn(tree, l, Len(tree))]

\* ScopeAnalyzer(source_lines).analyze(tree)
analyze(tree, total_lines) ==
    [lineToScope |-> line_to_scope(tree, total_lines),
     scopeToLocals |-> scope_to_locals(tree),
     globalDeclarations |-> global_declarations(tree)]

\* An analysis that keeps, when ast.parse fails, the default line map.
analyze_scopes_partial(prog) ==
    IF ~prog.syntaxOK
    THEN [lineToScope |-> [l \in 1..(prog.nlines + 1) |-> "global"],
          scopeToLocals |-> EmptyDict, globalDeclarations |-> EmptyDict,
          error |-> "'(' was never closed (<unknown>, line 1)"]
    ELSE analyze(prog.tree, prog.nlines)

\* analyze_scopes(code): a source that does not parse gives the empty info
\* with the text of the failure.
analyze_scopes(prog) ==
    IF ~prog.syntaxOK
    THEN [lineToScope |-> EmptyDict, scopeToLocals |-> EmptyDict,
          globalDeclarations |-> EmptyDict,
          error |-> "'(' was never closed (<unknown>, line 1)"]
    ELSE analyze(prog.tree, prog.nlines)

\* ast.parse builds the tree as Python objects, one recursion level deeper
\* than compile() goes for the same expression: for an expression at the
\* limit it raises RecursionError or not, as the depth of the call leaves
\* room, while exec() of the same source compiles.
AtRecursionLimit(prog) == \E i \in 1..Len(prog.tree) : prog.tree[i].type = "BinOp"

RecursionErrorInfo ==
    [lineToScope |-> EmptyDict, scopeToLocals |-> EmptyDict,
     globalDeclarations |-> EmptyDict,
     error |-> "maximum recursion depth exceeded during ast construction"]

\* The values analyze_scopes(code) can return.
ScopeAnalyses(prog) ==
    {analyze_scopes(prog)}
    \cup (IF prog.syntaxOK /\ AtRecursionLimit(prog) THEN {RecursionErrorInfo} ELSE {})

-----------------------------------------------------------------------------
(* The tracer's helpers *)

UnderscoreNames ==
    {"__name__", "__builtins__", "__tracer_result__", "_", "_t", "_cls", "_tuple_new"}

InternalNames ==
    {"tracer", "run_with_trace", "trace_data", "prev_vars", "is_user_var",
     "safe_repr", "user_code", "__tracer_result__", "json", "sys", "ast",
     "traceback", "get_func_name", "is_function", "capture_changes",
     "frame_prev_line", "error_message", "scope_info", "analyze_scopes",
     "ScopeAnalyzer"}

is_user_var_any(name) == TRUE

is_user_var(name) == name \notin UnderscoreNames /\ name \notin InternalNames

is_function_never(val) == FALSE

is_function(val) == val.t = "func"

\* is_function(val) raises: isinstance(val, type) reads val.__class__.
is_function_raises(val) == val.t = "object" /\ val.code = "badclass"

\* A safe_repr that renders an empty text when repr() fails.
safe_repr_empty(val) ==
    IF val.t = "int" THEN ToString(val.n)
    ELSE IF val.t = "func" THEN "<function " \o val.code \o ">"
    ELSE IF val.t = "str" THEN "'" \o val.code \o "'"
    ELSE IF val.t = "module" THEN "<module '" \o val.code \o "'>"
    ELSE IF val.t = "class" THEN "<class '__main__." \o val.code \o "'>"
    ELSE ""

safe_repr(val) ==
    IF val.t = "int" THEN ToString(val.n)
    ELSE IF val.t = "func" THEN "<function " \o val.code \o ">"
    ELSE IF val.t = "str" THEN "'" \o val.code \o "'"
    ELSE IF val.t = "module" THEN "<module '" \o val.code \o "'>"
    ELSE IF val.t = "class" THEN "<class '__main__." \o val.code \o "'>"
    ELSE "<unrepresentable>"

ScopedKey(scope, k) == scope \o "::" \o k

-----------------------------------------------------------------------------
(* The host runtime's view of the running program *)

Program == user_code
CodeOf(fr) == Program.code[fr.code]
Top == stack[Len(stack)]

FuncName(name) == IF name = "<module>" THEN "global" ELSE name
get_func_name(fr) == FuncName(CodeOf(fr).co_name)

\* Index of the frame whose cells frame i's free variables refer to: the
\* nearest caller running the enclosing function.
RECURSIVE Enclosing(_, _)
Enclosing(i, j) ==
    IF j = 0 THEN 0
    ELSE IF stack[j].code = CodeOf(stack[i]).parent THEN j
    ELSE Enclosing(i, j - 1)

CellsOf(j, names) ==
    IF j = 0 THEN EmptyDict
    ELSE [k \in names \cap DOMAIN stack[j].locals |-> stack[j].locals[k]]

FreeVals(i) == CellsOf(Enclosing(i, i - 1), CodeOf(stack[i]).co_freevars)

\* frame.f_locals: the module's namespace for the module frame; the bound
\* locals, cell and free variables for a function frame.
f_locals(i) ==
    IF CodeOf(stack[i]).kind = "module" THEN globals
    ELSE stack[i].locals @@ FreeVals(i)

IsFast(c, name) == c.kind = "function" /\ name \in c.co_varnames \cup c.co_cellvars

Get(d, name) == IF name \in DOMAIN d THEN d[name] ELSE Unbound

\* Value of a name as seen by the active frame (LOAD_FAST / LOAD_DEREF /
\* LOAD_GLOBAL); Unbound when the name has no binding.
Load(c, i, name) ==
    IF IsFast(c, name) THEN Get(stack[i].locals, name)
    ELSE IF name \in c.co_freevars THEN Get(FreeVals(i), name)
    ELSE Get(globals, name)

LookupName(name) == Load(CodeOf(Top), Len(stack), name)

Eval(a) == IF a.isvar THEN LookupName(a.name) ELSE IntVal(a.n)

NameError(name) == Exc("NameError", <<"name '" \o name \o "' is not defined">>)
ZeroDivisionError == Exc("ZeroDivisionError", <<"integer division or modulo by zero">>)
TypeError == Exc("TypeError", <<"unsupported operand type(s)">>)

\* The stack and globals after the active frame binds name to val.
BindStack(stk, name, val) ==
    IF IsFast(CodeOf(stk[Len(stk)]), name)
    THEN [stk EXCEPT ![Len(stk)].locals = (name :> val) @@ @]
    ELSE stk
BindGlobals(name, val) ==
    IF IsFast(CodeOf(Top), name) THEN globals ELSE (name :> val) @@ globals

Advance(stk) == [stk EXCEPT ![Len(stk)].pc = @ + 1]

NewFrame(id, c, locals) ==
    [id |-> id, code |-> c, pc |-> 1, f_lineno |-> 0, jumped |-> FALSE,
     it |-> -1, locals |-> locals, started |-> FALSE, notified |-> FALSE,
     handler |-> 0, pending |-> NoExc]

LiveIds == {stack[i].id : i \in 1..Len(stack)}

-----------------------------------------------------------------------------
(* capture_changes and tracer *)

\* The (scoped key, scope, repr) triples the first loop of capture_changes
\* collects from f_locals fl of a frame named func_name with co_varnames
\* local_names.
LocalVars(fl, func_name, local_names) ==
    {[key |-> ScopedKey(IF func_name # "global" /\ k \in local_names
                        THEN func_name ELSE "global", k),
      scope |-> IF func_name # "global" /\ k \in local_names THEN func_name ELSE "global",
      repr |-> safe_repr(fl[k])] :
        k \in {n \in DOMAIN fl : is_user_var(n) /\ ~is_function(fl[n])}}

\* The triples the second loop adds from f_globals gl, given the keys the
\* first loop covered.
GlobalVars(gl, covered) ==
    {[key |-> ScopedKey("global", k), scope |-> "global", repr |-> safe_repr(gl[k])] :
        k \in {n \in DOMAIN gl :
                  /\ is_user_var(n) /\ ~is_function(gl[n])
                  /\ ScopedKey("global", n) \notin covered}}

KeysOf(cvs) == {cv.key : cv \in cvs}

AllVars(locs, gl) == locs \cup GlobalVars(gl, KeysOf(locs))

\* The namespace collections evaluates the lambda of a named tuple in.
LibGlobals == ("__name__" :> StrVal("namedtuple_P")) @@ ("_tuple_new" :> FuncVal("tuple.__new__"))

\* frame.f_globals
f_globals(i) == IF CodeOf(stack[i]).origin = "user" THEN globals ELSE LibGlobals

current_vars(i) ==
    AllVars(LocalVars(f_locals(i), get_func_name(stack[i]),
                      IF get_func_name(stack[i]) = "global" THEN {}
                      ELSE CodeOf(stack[i]).co_varnames),
            f_globals(i))

\* One of the two loops over f_locals and f_globals raises: the except clause
\* around the body of capture_changes ends the capture.
Raises(ns) == \E k \in DOMAIN ns : is_user_var(k) /\ is_function_raises(ns[k])

CaptureFails(i) == Raises(f_locals(i)) \/ Raises(f_globals(i))

ChangedAlways(pv, cv) == TRUE

\* prev_repr is None or prev_repr != v_repr
Changed(pv, cv) == cv.key \notin DOMAIN pv \/ pv[cv.key] # cv.repr

EventInFrame(line_no, scope, func_name, v_repr) ==
    [line |-> line_no, function |-> func_name, assignedIn |-> func_name, value |-> v_repr]

EventInScope(line_no, scope, func_name, v_repr) ==
    [line |-> line_no, function |-> scope, assignedIn |-> scope, value |-> v_repr]

Event(line_no, scope, func_name, v_repr) ==
    [line |-> line_no, function |-> scope, assignedIn |-> func_name, value |-> v_repr]

The(changed, key) == CHOOSE cv \in changed : cv.key = key

\* The last loop of capture_changes: one event per changed variable.
\* A recording that appends the events and leaves prev_vars as it was.
RecordAppending(td, pv, changed, keys, func_name, line_no) ==
    [trace_data |->
        [key \in DOMAIN td \cup keys |->
            IF key \in keys
            THEN Append(IF key \in DOMAIN td THEN td[key] ELSE <<>>,
                        Event(line_no, The(changed, key).scope, func_name,
                              The(changed, key).repr))
            ELSE td[key]],
     prev_vars |-> pv]

Record(td, pv, changed, keys, func_name, line_no) ==
    [trace_data |->
        [key \in DOMAIN td \cup keys |->
            IF key \in keys
            THEN Append(IF key \in DOMAIN td THEN td[key] ELSE <<>>,
                        Event(line_no, The(changed, key).scope, func_name,
                              The(changed, key).repr))
            ELSE td[key]],
     prev_vars |->
        [key \in DOMAIN pv \cup keys |->
            IF key \in keys THEN The(changed, key).repr ELSE pv[key]]]

RecordChanged(td, pv, changed, func_name, line_no) ==
    Record(td, pv, changed, KeysOf(changed), func_name, line_no)

\* A capture that keeps only the histories of the variables it sees changed.
capture_changes_rebuilding(td, pv, i, line_no) ==
    RecordChanged(EmptyDict, pv, {cv \in current_vars(i) : Changed(pv, cv)},
                  get_func_name(stack[i]), line_no)

\* A capture that attributes every event to the module.
capture_changes_unattributed(td, pv, i, line_no) ==
    IF CaptureFails(i) THEN [trace_data |-> td, prev_vars |-> pv]
    ELSE RecordChanged(td, pv, {cv \in current_vars(i) : Changed(pv, cv)}, "global", line_no)

\* A capture that records only on the lines scope_info knows.
capture_changes_analysed(td, pv, i, line_no) ==
    IF CaptureFails(i) \/ line_no \notin DOMAIN scope_info.lineToScope
    THEN [trace_data |-> td, prev_vars |-> pv]
    ELSE RecordChanged(td, pv, {cv \in current_vars(i) : Changed(pv, cv)},
                       get_func_name(stack[i]), line_no)

\* capture_changes(frame, line_no) on trace_data td and prev_vars pv.
capture_changes(td, pv, i, line_no) ==
    IF CaptureFails(i) THEN [trace_data |-> td, prev_vars |-> pv]
    ELSE RecordChanged(td, pv, {cv \in current_vars(i) : Changed(pv, cv)},
                       get_func_name(stack[i]), line_no)

WithLines(cap, fpl) ==
    [trace_data |-> cap.trace_data, prev_vars |-> cap.prev_vars, frame_prev_line |-> fpl]

Without(fpl, frame_id) == [a \in DOMAIN fpl \ {frame_id} |-> fpl[a]]

\* A tracer that attributes the deferred capture to the line being entered.
tracerNewLine(i, event, lineno) ==
    IF event = "line"
    THEN WithLines(IF stack[i].id \in DOMAIN frame_prev_line
                   THEN capture_changes(trace_data, prev_vars, i, lineno)
                   ELSE [trace_data |-> trace_data, prev_vars |-> prev_vars],
                   (stack[i].id :> lineno) @@ frame_prev_line)
    ELSE IF event = "return" /\ stack[i].id \in DOMAIN frame_prev_line
    THEN WithLines(capture_changes(trace_data, prev_vars, i, frame_prev_line[stack[i].id]),
                   Without(frame_prev_line, stack[i].id))
    ELSE WithLines([trace_data |-> trace_data, prev_vars |-> prev_vars], frame_prev_line)

\* A tracer that captures on every line event, recorded line or not.
tracerCapturingFirstLine(i, event, lineno) ==
    IF event = "line"
    THEN WithLines(capture_changes(trace_data, prev_vars, i,
                                   IF stack[i].id \in DOMAIN frame_prev_line
                                   THEN frame_prev_line[stack[i].id] ELSE lineno),
                   (stack[i].id :> lineno) @@ frame_prev_line)
    ELSE IF event = "return" /\ stack[i].id \in DOMAIN frame_prev_line
    THEN WithLines(capture_changes(trace_data, prev_vars, i, frame_prev_line[stack[i].id]),
                   Without(frame_prev_line, stack[i].id))
    ELSE IF event = "exception"
    THEN WithLines(capture_changes(trace_data, prev_vars, i, lineno), frame_prev_line)
    ELSE WithLines([trace_data |-> trace_data, prev_vars |-> prev_vars], frame_prev_line)

\* A tracer that keeps the entry of a returned frame in frame_prev_line.
tracerKeepingEntry(i, event, lineno) ==
    IF event = "line"
    THEN WithLines(IF stack[i].id \in DOMAIN frame_prev_line
                   THEN capture_changes(trace_data, prev_vars, i, frame_prev_line[stack[i].id])
                   ELSE [trace_data |-> trace_data, prev_vars |-> prev_vars],
                   (stack[i].id :> lineno) @@ frame_prev_line)
    ELSE IF event = "return" /\ stack[i].id \in DOMAIN frame_prev_line
    THEN WithLines(capture_changes(trace_data, prev_vars, i, frame_prev_line[stack[i].id]),
                   frame_prev_line)
    ELSE IF event = "exception"
    THEN WithLines(capture_changes(trace_data, prev_vars, i, lineno), frame_prev_line)
    ELSE WithLines([trace_data |-> trace_data, prev_vars |-> prev_vars], frame_prev_line)

\* tracer(frame, event, arg) for the frame at index i, whose f_lineno is lineno.
tracer(i, event, lineno) ==
    IF CodeOf(stack[i]).co_filename # "<string>"
    THEN WithLines([trace_data |-> trace_data, prev_vars |-> prev_vars], frame_prev_line)
    ELSE IF event = "line"
    THEN WithLines(IF stack[i].id \in DOMAIN frame_prev_line
                   THEN capture_changes(trace_data, prev_vars, i, frame_prev_line[stack[i].id])
                   ELSE [trace_data |-> trace_data, prev_vars |-> prev_vars],
                   (stack[i].id :> lineno) @@ frame_prev_line)
    ELSE IF event = "return"
    THEN (IF stack[i].id \in DOMAIN frame_prev_line
          THEN WithLines(capture_changes(trace_data, prev_vars, i,
                                         frame_prev_line[stack[i].id]),
                         Without(frame_prev_line, stack[i].id))
          ELSE WithLines([trace_data |-> trace_data, prev_vars |-> prev_vars],
                         frame_prev_line))
    ELSE IF event = "exception"
    THEN WithLines(capture_changes(trace_data, prev_vars, i, lineno), frame_prev_line)
    ELSE WithLines([trace_data |-> trace_data, prev_vars |-> prev_vars], frame_prev_line)

-----------------------------------------------------------------------------
(* Results of runAndTrace *)

\* scope_info as TRACER_CODE defines it, and the page's scopeInfo before a run.
EmptyScopeInfo ==
    [lineToScope |-> EmptyDict, scopeToLocals |-> EmptyDict, globalDeclarations |-> EmptyDict]

NoResult == [status |-> "none", output |-> <<>>, traceData |-> EmptyDict,
             errorMessage |-> Null, scopeInfo |-> EmptyScopeInfo]
Rejected == [status |-> "rejected", output |-> <<>>, traceData |-> EmptyDict,
             errorMessage |-> Null, scopeInfo |-> EmptyScopeInfo]

ExecGlobalsShared ==
    globals @@ ("__name__" :> StrVal("__main__")) @@ ("__builtins__" :> ModuleVal("builtins"))

\* The globals dict run_with_trace hands to exec().
ExecGlobals == ("__name__" :> StrVal("__main__")) @@ ("__builtins__" :> ModuleVal("builtins"))

\* error_message = traceback.format_exc().splitlines()[-1]
ErrorSummary(e) == Str(Join(Last(splitlines(format_exc(e)))))

FinalOutputPlain(out, parsedError) == out

\* if (parsed.errorMessage) { finalOutput = finalOutput + (finalOutput ? '\n' : '') + marker + message }
FinalOutput(out, parsedError) ==
    IF ~parsedError.null /\ parsedError.str # ""
    THEN out \o (IF out # <<>> THEN <<"\n">> ELSE <<>>) \o <<ErrorMarker \o parsedError.str>>
    ELSE out

-----------------------------------------------------------------------------
(* The page's state before any run *)

NoListener == [registered |-> FALSE, hasRun |-> FALSE]

\* What the diagram pane can hold: nothing, a placeholder paragraph, the svg
\* mermaid made of a diagram definition, or the text of mermaid's failure.
NoDiagram == [nodes |-> <<>>, error |-> ""]
Cleared == [kind |-> "empty", text |-> "", def |-> NoDiagram]
Placeholder(text) == [kind |-> "placeholder", text |-> text, def |-> NoDiagram]
Svg(def) == [kind |-> "svg", text |-> "", def |-> def]
MermaidError(def) == [kind |-> "error", text |-> "Mermaid error:", def |-> def]

-----------------------------------------------------------------------------
(* Initial state: the page is loaded, nothing has run *)

\* TRACER_CODE has not run, no call is in flight.
InitTracer ==
    /\ phase = "idle"
    /\ user_code = preprocessCode(code)
    /\ runs = 0
    /\ pyodideInstance = FALSE
    /\ printOutput = <<>>
    /\ trace_data = EmptyDict
    /\ prev_vars = EmptyDict
    /\ frame_prev_line = EmptyDict
    /\ error_message = Null
    /\ scope_info = EmptyScopeInfo
    /\ hooked = FALSE
    /\ stack = <<>>
    /\ globals = EmptyDict
    /\ exc = NoExc
    /\ jsonString = NoResult
    /\ result = NoResult
    /\ delivered = [s \in SourceIds |-> NoResult]

\* The useState and useRef initial values of App.
InitPage ==
    /\ running = FALSE
    /\ hasRun = FALSE
    /\ output = <<>>
    /\ allTraceData = EmptyDict
    /\ scopeInfo = EmptyScopeInfo
    /\ errorMessage = Null
    /\ selectedVar = ""
    /\ hoveredVar = Null
    /\ contentListener = NoListener
    /\ selectedVarRef = ""
    /\ decorationsRef = {}
    /\ pendingEffects = {}
    /\ pendingCalls = 0
    /\ diagramRef = Placeholder("code must be run :)")
    /\ rendering = <<>>

Init ==
    /\ code \in RunSources
    /\ InitTracer
    /\ InitPage
    /\ editorText = "dup"
    /\ lineToVarMapRef = EmptyDict
    /\ scopeInfoRef = EmptyScopeInfo

-----------------------------------------------------------------------------
(* runAndTrace, first part: preprocess, load Pyodide, install the output
   handlers and run TRACER_CODE, which (re)defines the tracer's globals. *)
runAndTrace(src) ==
    /\ phase = "idle"
    /\ runs < MaxRuns
    /\ runs' = runs + 1
    /\ code' = src
    /\ user_code' = preprocessCode(src)
    /\ printOutput' = <<>>
    /\ pyodideInstance' = TRUE
    /\ trace_data' = EmptyDict
    /\ prev_vars' = EmptyDict
    /\ frame_prev_line' = EmptyDict
    /\ error_message' = Null
    /\ scope_info' = EmptyScopeInfo
    /\ result' = NoResult
    /\ phase' = "loaded"
    /\ UNCHANGED <<hooked, stack, globals, exc, jsonString, delivered>>

(* loadPyodide() rejects: the await throws and runAndTrace rejects. *)
LoadFails(src) ==
    /\ phase = "idle"
    /\ runs < MaxRuns
    /\ ~pyodideInstance
    /\ runs' = runs + 1
    /\ code' = src
    /\ printOutput' = <<>>
    /\ result' = Rejected
    /\ UNCHANGED <<phase, user_code, scope_info, pyodideInstance, trace_data, prev_vars, frame_prev_line,
                   error_message, hooked, stack, globals, exc, jsonString, delivered>>

settraceKeepsHook(fn) == TRUE

\* sys.settrace(fn): the hook is armed unless fn is None.
settrace(fn) == fn # "None"

(* run_with_trace up to the start of exec(): reset, arm the hook, compile. *)
run_with_trace ==
    /\ phase = "loaded"
    /\ trace_data' = EmptyDict
    /\ prev_vars' = EmptyDict
    /\ frame_prev_line' = EmptyDict
    /\ error_message' = Null
    /\ scope_info' \in ScopeAnalyses(Program)
    /\ hooked' = settrace("tracer")
    /\ globals' = ExecGlobals
    /\ IF Program.syntaxOK
       THEN /\ \E id \in Addrs : stack' = <<NewFrame(id, "<module>", EmptyDict)>>
            /\ exc' = NoExc
       ELSE /\ stack' = <<>>
            /\ exc' = Exc("SyntaxError", <<"'(' was never closed">>)
    /\ phase' = "exec"
    /\ UNCHANGED <<code, user_code, runs, pyodideInstance, printOutput, jsonString, result, delivered>>

-----------------------------------------------------------------------------
(* The host runtime executing the user's program under the trace hook *)

InUserCode == phase = "exec" /\ stack # <<>>
AtEnd(fr) == fr.pc > Len(CodeOf(fr).instrs)
NextIns(fr) == CodeOf(fr).instrs[fr.pc]

\* CPython delivers a 'line' event when execution reaches an instruction of
\* another line, or reaches any line by a backward jump.
NeedsLine(fr) ==
    /\ ~AtEnd(fr)
    /\ NextIns(fr).op # "jmp"
    /\ (NextIns(fr).line # fr.f_lineno \/ fr.jumped)

TracerVars == <<trace_data, prev_vars, frame_prev_line>>

ApplyTracer(r) ==
    /\ trace_data' = r.trace_data
    /\ prev_vars' = r.prev_vars
    /\ frame_prev_line' = r.frame_prev_line

(* tracer(frame, 'call', None): a new frame is entered. *)
TraceCall ==
    /\ InUserCode /\ hooked
    /\ ~Top.started
    /\ ApplyTracer(tracer(Len(stack), "call", Top.f_lineno))
    /\ stack' = [stack EXCEPT ![Len(stack)].started = TRUE]
    /\ UNCHANGED <<phase, code, user_code, scope_info, runs, pyodideInstance, printOutput, error_message,
                   hooked, globals, exc, jsonString, result, delivered>>

(* tracer(frame, 'line', None): the frame is about to execute a new line. *)
TraceLine ==
    /\ InUserCode /\ hooked
    /\ Top.started /\ exc = NoExc
    /\ NeedsLine(Top)
    /\ ApplyTracer(tracer(Len(stack), "line", NextIns(Top).line))
    /\ stack' = [stack EXCEPT ![Len(stack)].f_lineno = NextIns(Top).line,
                              ![Len(stack)].jumped = FALSE]
    /\ UNCHANGED <<phase, code, user_code, scope_info, runs, pyodideInstance, printOutput, error_message,
                   hooked, globals, exc, jsonString, result, delivered>>

\* The outcome of executing instruction ins in the active frame; id is the
\* address a frame created by a call gets.
Outcome(stk, gl, e, out) == [stack |-> stk, globals |-> gl, exc |-> e, printOutput |-> out]
Raise(e) == Outcome(stack, globals, e, printOutput)
Bound(name, val) ==
    Outcome(Advance(BindStack(stack, name, val)), BindGlobals(name, val), NoExc, printOutput)

ExecOp(ins, id, a, b, cur, top) ==
    CASE ins.op = "set" ->
            IF a = Unbound THEN Raise(NameError(ins.a.name))
            ELSE Bound(ins.var, a)
      [] ins.op = "aug" ->
            IF cur = Unbound THEN Raise(NameError(ins.var))
            ELSE IF a = Unbound THEN Raise(NameError(ins.a.name))
            ELSE Bound(ins.var, IntVal(cur.n + a.n))
      [] ins.op = "for" ->
            IF (IF Top.it = -1 THEN 0 ELSE Top.it) < a.n
            THEN Outcome([Advance(BindStack(stack, ins.var, IntVal(IF Top.it = -1 THEN 0 ELSE Top.it)))
                             EXCEPT ![top].it = (IF Top.it = -1 THEN 0 ELSE Top.it) + 1],
                         BindGlobals(ins.var, IntVal(IF Top.it = -1 THEN 0 ELSE Top.it)),
                         NoExc, printOutput)
            ELSE Outcome([stack EXCEPT ![top].it = -1, ![top].pc = ins.tgt],
                         globals, NoExc, printOutput)
      [] ins.op = "jmp" ->
            Outcome([stack EXCEPT ![top].pc = ins.tgt, ![top].jumped = TRUE],
                    globals, NoExc, printOutput)
      [] ins.op = "print" ->
            IF a = Unbound THEN Raise(NameError(ins.a.name))
            ELSE Outcome(Advance(stack), globals, NoExc,
                         printOutput \o <<safe_repr(a), "\n">>)
      [] ins.op = "def" -> Bound(ins.var, FuncVal(ins.var))
      [] ins.op = "import" -> Bound(ins.var, FuncVal(ins.var))
      [] ins.op = "importmodule" -> Bound(ins.var, ModuleVal(ins.var))
      [] ins.op = "input" -> Bound(ins.var, StrVal(ToString(a.n)))
      [] ins.op = "literal_eval" -> Bound(ins.var, a)
      [] ins.op = "class" -> Bound(ins.var, ClassVal(ins.var))
      [] ins.op = "new" -> Bound(ins.var, ObjVal(ins.a.name))
      [] ins.op = "call" ->
            IF cur = Unbound THEN Raise(NameError(ins.var))
            ELSE IF cur.t \notin {"func", "class"} THEN Raise(TypeError)
            ELSE IF a = Unbound THEN Raise(NameError(ins.a.name))
            ELSE Outcome(Append(Advance(stack),
                                NewFrame(id, cur.code,
                                         [k \in {Program.code[cur.code].params[j] :
                                                   j \in 1..Len(Program.code[cur.code].params)} |-> a])),
                         globals, NoExc, printOutput)
      [] ins.op = "div" ->
            IF a = Unbound THEN Raise(NameError(ins.a.name))
            ELSE IF b = Unbound THEN Raise(NameError(ins.b.name))
            ELSE IF b.n = 0 THEN Raise(ZeroDivisionError)
            ELSE IF ins.var = "" THEN Outcome(Advance(stack), globals, NoExc, printOutput)
            ELSE Bound(ins.var, IntVal(a.n \div b.n))
      [] ins.op = "raise" -> Raise(ins.e)
      [] ins.op = "try" ->
            Outcome([Advance(stack) EXCEPT ![top].handler = ins.tgt],
                    globals, NoExc, printOutput)
      [] ins.op = "reraise" ->
            IF Top.pending = NoExc THEN Outcome(Advance(stack), globals, NoExc, printOutput)
            ELSE Outcome([stack EXCEPT ![top].notified = TRUE],
                         globals, Top.pending, printOutput)
      [] ins.op = "ret" ->
            IF a = Unbound THEN Raise(NameError(ins.a.name))
            ELSE Outcome([stack EXCEPT ![top].pc = Len(CodeOf(Top).instrs) + 1],
                         globals, NoExc, printOutput)
      [] OTHER -> Outcome(Advance(stack), globals, NoExc, printOutput)

Exec(ins, id) ==
    ExecOp(ins, id, Eval(ins.a), Eval(ins.b),
           IF ins.var = "" THEN Unbound ELSE LookupName(ins.var), Len(stack))

ApplyOutcome(r) ==
    /\ stack' = r.stack
    /\ globals' = r.globals
    /\ exc' = r.exc
    /\ printOutput' = r.printOutput

(* The host executes one instruction of the active frame. *)
ExecInstr ==
    /\ InUserCode
    /\ Top.started /\ exc = NoExc
    /\ ~AtEnd(Top) /\ ~NeedsLine(Top)
    /\ \E id \in (IF NextIns(Top).op = "call" THEN Addrs \ LiveIds ELSE {0}) :
          ApplyOutcome(Exec(NextIns(Top), id))
    /\ UNCHANGED <<phase, code, user_code, scope_info, runs, pyodideInstance, trace_data, prev_vars,
                   frame_prev_line, error_message, hooked, jsonString, result, delivered>>

(* tracer(frame, 'exception', ...): an exception is raised in, or propagates
   into, the active frame. *)
TraceException ==
    /\ InUserCode /\ hooked
    /\ Top.started /\ exc # NoExc /\ ~Top.notified
    /\ ApplyTracer(tracer(Len(stack), "exception", Top.f_lineno))
    /\ stack' = [stack EXCEPT ![Len(stack)].notified = TRUE]
    /\ UNCHANGED <<phase, code, user_code, scope_info, runs, pyodideInstance, printOutput, error_message,
                   hooked, globals, exc, jsonString, result, delivered>>

\* The active frame has a finally clause covering the instruction it stands at.
Guarded(fr) == fr.handler # 0 /\ fr.pc < fr.handler

(* The failure reaches a try statement of the active frame: the host keeps it
   pending and continues at the finally clause. *)
EnterFinally ==
    /\ InUserCode
    /\ Top.started /\ exc # NoExc /\ Top.notified
    /\ Guarded(Top)
    /\ stack' = [stack EXCEPT ![Len(stack)].pc = Top.handler,
                              ![Len(stack)].pending = exc,
                              ![Len(stack)].notified = FALSE]
    /\ exc' = NoExc
    /\ UNCHANGED <<phase, code, user_code, scope_info, runs, pyodideInstance, printOutput, trace_data,
                   prev_vars, frame_prev_line, error_message, hooked, globals, jsonString,
                   result, delivered>>

(* tracer(frame, 'return', ...): the active frame returns, or is unwound by
   the propagating exception; the host then discards the frame. *)
TraceReturn ==
    /\ InUserCode /\ hooked
    /\ Top.started
    /\ \/ exc = NoExc /\ AtEnd(Top)
       \/ exc # NoExc /\ Top.notified /\ ~Guarded(Top)
    /\ ApplyTracer(tracer(Len(stack), "return", Top.f_lineno))
    /\ stack' = SubSeq(stack, 1, Len(stack) - 1)
    /\ UNCHANGED <<phase, code, user_code, scope_info, runs, pyodideInstance, printOutput, error_message,
                   hooked, globals, exc, jsonString, result, delivered>>

-----------------------------------------------------------------------------
(* run_with_trace after exec(): except Exception / finally / return json.dumps *)
run_with_trace_return ==
    /\ phase = "exec" /\ stack = <<>>
    /\ exc = NoExc \/ exc.isException
    /\ error_message' = IF exc = NoExc THEN error_message ELSE ErrorSummary(exc)
    /\ hooked' = settrace("None")
    /\ exc' = NoExc
    /\ jsonString' = [status |-> "json", output |-> <<>>, traceData |-> trace_data,
                      errorMessage |-> error_message', scopeInfo |-> scope_info]
    /\ phase' = "returned"
    /\ UNCHANGED <<code, user_code, scope_info, runs, pyodideInstance, printOutput, trace_data, prev_vars,
                   frame_prev_line, stack, globals, result, delivered>>

(* A failure that is not an Exception (SystemExit, KeyboardInterrupt) passes
   the except clause: finally disarms the hook, run_with_trace raises,
   runPythonAsync rejects and with it runAndTrace. *)
run_with_trace_raise ==
    /\ phase = "exec" /\ stack = <<>>
    /\ exc # NoExc /\ ~exc.isException
    /\ hooked' = settrace("None")
    /\ exc' = NoExc
    /\ result' = Rejected
    /\ phase' = "idle"
    /\ UNCHANGED <<code, user_code, scope_info, runs, pyodideInstance, printOutput, trace_data, prev_vars,
                   frame_prev_line, error_message, stack, globals, jsonString, delivered>>

(* runAndTrace, last part: parse the JSON, compose the output, resolve. *)
runAndTraceResolve ==
    /\ phase = "returned"
    /\ result' = [status |-> "resolved",
                  output |-> FinalOutput(printOutput, jsonString.errorMessage),
                  traceData |-> jsonString.traceData,
                  errorMessage |-> jsonString.errorMessage,
                  scopeInfo |-> jsonString.scopeInfo]
    /\ delivered' = [delivered EXCEPT ![code] = result']
    /\ phase' = "idle"
    /\ UNCHANGED <<code, user_code, scope_info, runs, pyodideInstance, printOutput, trace_data, prev_vars,
                   frame_prev_line, error_message, hooked, stack, globals, exc, jsonString>>

-----------------------------------------------------------------------------

(* runAndTrace called with any source, by any caller; the page stays as it is. *)
Next ==
    \/ \E src \in RunSources : runAndTrace(src) /\ UNCHANGED UIVars
    \/ \E src \in RunSources : LoadFails(src) /\ UNCHANGED UIVars
    \/ run_with_trace /\ UNCHANGED UIVars
    \/ TraceCall /\ UNCHANGED UIVars
    \/ TraceLine /\ UNCHANGED UIVars
    \/ ExecInstr /\ UNCHANGED UIVars
    \/ TraceException /\ UNCHANGED UIVars
    \/ EnterFinally /\ UNCHANGED UIVars
    \/ TraceReturn /\ UNCHANGED UIVars
    \/ run_with_trace_return /\ UNCHANGED UIVars
    \/ run_with_trace_raise /\ UNCHANGED UIVars
    \/ runAndTraceResolve /\ UNCHANGED UIVars

Spec == Init /\ [][Next]_vars

\* The same program, submitting the sources with values that cannot be
\* rendered or classified, excluded names, library code, and function
\* definitions that are nested or bind several names at once.
InitCorner ==
    /\ code \in CornerSources
    /\ InitTracer
    /\ InitPage
    /\ editorText = "dup"
    /\ lineToVarMapRef = EmptyDict
    /\ scopeInfoRef = EmptyScopeInfo

NextCorner ==
    \/ \E src \in CornerSources : runAndTrace(src) /\ UNCHANGED UIVars
    \/ \E src \in CornerSources : LoadFails(src) /\ UNCHANGED UIVars
    \/ run_with_trace /\ UNCHANGED UIVars
    \/ TraceCall /\ UNCHANGED UIVars
    \/ TraceLine /\ UNCHANGED UIVars
    \/ ExecInstr /\ UNCHANGED UIVars
    \/ TraceException /\ UNCHANGED UIVars
    \/ EnterFinally /\ UNCHANGED UIVars
    \/ TraceReturn /\ UNCHANGED UIVars
    \/ run_with_trace_return /\ UNCHANGED UIVars
    \/ run_with_trace_raise /\ UNCHANGED UIVars
    \/ runAndTraceResolve /\ UNCHANGED UIVars

SpecCorner == InitCorner /\ [][NextCorner]_vars

-----------------------------------------------------------------------------
(* The page (App.jsx).  A React state variable holds its last committed
   value; a handler and the commit of the updates it queues are one step.
   The effects of a commit run in a later step (FlushEffects), or at the
   latest right before the next commit.  A ref is written at once. *)

\* The texts typed into the editor.
UISources == {"dup", "semifault", "syntax", "sysexit"}

MaxLine == 3       \* editor lines the mouse can hover

HoverLines == 1..MaxLine

TracerState == <<phase, code, user_code, scope_info, runs, pyodideInstance, printOutput, trace_data,
                 prev_vars, frame_prev_line, error_message, hooked, stack, globals,
                 exc, jsonString, result, delivered>>

\* buildLineToVarMap: a line maps to the first variable with an event on it,
\* else to the first name of a global declaration on it if that was traced.
TracedLines(traceData) ==
    UNION {{traceData[k][j].line : j \in 1..Len(traceData[k])} : k \in DOMAIN traceData}

DeclaredLines(traceData, info) ==
    {l \in DOMAIN info.globalDeclarations :
        /\ info.globalDeclarations[l] # <<>>
        /\ ScopedKey("global", info.globalDeclarations[l][1]) \in DOMAIN traceData}

buildLineToVarMap(traceData, info) ==
    [l \in TracedLines(traceData) \cup DeclaredLines(traceData, info) |->
        IF l \in TracedLines(traceData)
        THEN CHOOSE k \in DOMAIN traceData :
                \E j \in 1..Len(traceData[k]) : traceData[k][j].line = l
        ELSE ScopedKey("global", info.globalDeclarations[l][1])]

\* getScope and getRawVarName: the first and the last part of a scoped key
\* split at "::".
KeyScopes == {"global", "f", "g"}
KeyNames == {"x", "y"}

getScope(scopedVar) ==
    IF scopedVar = "" THEN ""
    ELSE CHOOSE s \in KeyScopes : \E n \in KeyNames : scopedVar = ScopedKey(s, n)

getRawVarName(scopedVar) ==
    IF scopedVar = "" THEN ""
    ELSE CHOOSE n \in KeyNames : \E s \in KeyScopes : scopedVar = ScopedKey(s, n)

\* dict[key] || fallback
Lookup(dict, key, fallback) == IF key \in DOMAIN dict THEN dict[key] ELSE fallback

Includes(list, x) == \E j \in 1..Len(list) : list[j] = x

\* A shouldHighlightOnLine that highlights a global variable on every line.
shouldHighlightOnLineAnyFunction(info, scopedVar, lineNum) ==
    IF getScope(scopedVar) = "global" THEN TRUE
    ELSE Lookup(info.lineToScope, lineNum, "global") = getScope(scopedVar)

\* shouldHighlightOnLine, info being scopeInfoRef.current.
shouldHighlightOnLine(info, scopedVar, lineNum) ==
    IF /\ getScope(scopedVar) = "global"
       /\ Includes(Lookup(info.globalDeclarations, lineNum, <<>>), getRawVarName(scopedVar))
    THEN TRUE
    ELSE IF getScope(scopedVar) = "global"
    THEN IF Lookup(info.lineToScope, lineNum, "global") = "global"
         THEN TRUE
         ELSE getRawVarName(scopedVar)
                 \notin Lookup(info.scopeToLocals,
                               Lookup(info.lineToScope, lineNum, "global"), {})
    ELSE Lookup(info.lineToScope, lineNum, "global") = getScope(scopedVar)

\* The lines of a text on which the regular expression \bname\b matches.
Mentions(ins, name) ==
    \/ ins.var = name
    \/ ins.a.isvar /\ ins.a.name = name
    \/ ins.b.isvar /\ ins.b.name = name

OccursOn(prog, name) ==
    UNION {{prog.code[c].instrs[j].line :
              j \in {k \in 1..Len(prog.code[c].instrs) : Mentions(prog.code[c].instrs[k], name)}} :
           c \in DOMAIN prog.code}

\* The decorations highlightVariable leaves: the hovered line (0 for none)
\* and the occurrences of the raw name on the lines that should highlight.
Decoration(line, kind) == [line |-> line, kind |-> kind]

highlightVariable(scopedVar, hoveredLine, occurrences, info) ==
    IF getRawVarName(scopedVar) = "" THEN {}
    ELSE (IF hoveredLine # 0 THEN {Decoration(hoveredLine, "hovered-line-highlight")} ELSE {})
         \cup {Decoration(l, "variable-highlight") :
                 l \in {o \in occurrences : shouldHighlightOnLine(info, scopedVar, o)}}

\* The refs and the listener, as a record a handler rewrites.
Refs ==
    [lineToVarMapRef |-> lineToVarMapRef, scopeInfoRef |-> scopeInfoRef,
     selectedVarRef |-> selectedVarRef, decorationsRef |-> decorationsRef,
     contentListener |-> contentListener]

\* The pending effects run on refs r, in the order the component declares
\* them: selectedVarRef, scopeInfoRef, the line map, the content listener,
\* the highlight of the selected variable.
Flush(r, text) ==
    [lineToVarMapRef |->
        IF "data" \in pendingEffects THEN buildLineToVarMap(allTraceData, scopeInfo)
        ELSE r.lineToVarMapRef,
     scopeInfoRef |-> IF "data" \in pendingEffects THEN scopeInfo ELSE r.scopeInfoRef,
     selectedVarRef |-> IF "selectedVar" \in pendingEffects THEN selectedVar
                        ELSE r.selectedVarRef,
     decorationsRef |->
        IF "selectedVar" \in pendingEffects
        THEN highlightVariable(selectedVar, 0,
                               OccursOn(Sources[text], getRawVarName(selectedVar)),
                               IF "data" \in pendingEffects THEN scopeInfo ELSE r.scopeInfoRef)
        ELSE r.decorationsRef,
     contentListener |->
        IF "hasRun" \in pendingEffects THEN [registered |-> TRUE, hasRun |-> hasRun]
        ELSE r.contentListener]

SetRefs(r) ==
    /\ lineToVarMapRef' = r.lineToVarMapRef
    /\ scopeInfoRef' = r.scopeInfoRef
    /\ selectedVarRef' = r.selectedVarRef
    /\ decorationsRef' = r.decorationsRef
    /\ contentListener' = r.contentListener

\* The effects a commit schedules: [hasRun] and [selectedVar] when the value
\* changed, [allTraceData] and [scopeInfo] when either was set (to a new
\* object).
EffectsAfter(newHasRun, newSelectedVar, dataSet) ==
    (IF newHasRun # hasRun THEN {"hasRun"} ELSE {})
    \cup (IF newSelectedVar # selectedVar THEN {"selectedVar"} ELSE {})
    \cup (IF dataSet THEN {"data"} ELSE {})

(* The useEffect callbacks of the last commit. *)
FlushEffects ==
    /\ pendingEffects # {}
    /\ SetRefs(Flush(Refs, editorText))
    /\ pendingEffects' = {}
    /\ UNCHANGED <<editorText, running, hasRun, output, allTraceData, scopeInfo,
                   errorMessage, selectedVar, hoveredVar, pendingCalls>>
    /\ UNCHANGED TracerState

\* A handleRun that leaves the Run button enabled.
handleRunEnabled ==
    /\ ~running
    /\ output' = <<"Running...", "\n">>
    /\ allTraceData' = EmptyDict
    /\ scopeInfo' = EmptyScopeInfo
    /\ selectedVar' = ""
    /\ hoveredVar' = Null
    /\ errorMessage' = Null
    /\ hasRun' = FALSE
    /\ SetRefs(Flush([Refs EXCEPT !.decorationsRef = {}], editorText))
    /\ pendingEffects' = EffectsAfter(FALSE, "", TRUE)
    /\ pendingCalls' = pendingCalls + 1
    /\ UNCHANGED <<editorText, running>>
    /\ IF phase = "idle" THEN runAndTrace(editorText) ELSE UNCHANGED TracerState

(* handleRun up to the await: the click on the enabled Run button. *)
handleRun ==
    /\ ~running
    /\ running' = TRUE
    /\ output' = <<"Running...", "\n">>
    /\ allTraceData' = EmptyDict
    /\ scopeInfo' = EmptyScopeInfo
    /\ selectedVar' = ""
    /\ hoveredVar' = Null
    /\ errorMessage' = Null
    /\ hasRun' = FALSE
    /\ SetRefs(Flush([Refs EXCEPT !.decorationsRef = {}], editorText))
    /\ pendingEffects' = EffectsAfter(FALSE, "", TRUE)
    /\ pendingCalls' = pendingCalls + 1
    /\ UNCHANGED editorText
    /\ IF phase = "idle" THEN runAndTrace(editorText) ELSE UNCHANGED TracerState

(* handleRun after the await, the call resolved. *)
handleRunResolved ==
    /\ runAndTraceResolve
    /\ allTraceData' = result'.traceData
    /\ scopeInfo' = result'.scopeInfo
    /\ errorMessage' = IF result'.errorMessage.null \/ result'.errorMessage.str = ""
                       THEN Null ELSE result'.errorMessage
    /\ output' = IF result'.output = <<>> THEN <<"(no output)">> ELSE result'.output
    /\ hasRun' = TRUE
    /\ running' = FALSE
    /\ SetRefs(Flush(Refs, editorText))
    /\ pendingEffects' = EffectsAfter(TRUE, selectedVar, TRUE)
    /\ pendingCalls' = pendingCalls - 1
    /\ UNCHANGED <<editorText, selectedVar, hoveredVar>>

\* A catch clause that reports the failure and leaves hasRun as it is.
handleRunRejectedReporting ==
    /\ run_with_trace_raise
    /\ output' = <<"Error: " \o exc.etype>>
    /\ running' = FALSE
    /\ SetRefs(Flush(Refs, editorText))
    /\ pendingEffects' = EffectsAfter(hasRun, selectedVar, FALSE)
    /\ pendingCalls' = pendingCalls - 1
    /\ UNCHANGED <<editorText, hasRun, allTraceData, scopeInfo, errorMessage, selectedVar,
                   hoveredVar>>

(* handleRun after the await, the call rejected: the catch clause. *)
handleRunRejected ==
    /\ run_with_trace_raise
    /\ output' = <<"Error: " \o exc.etype>>
    /\ hasRun' = TRUE
    /\ running' = FALSE
    /\ SetRefs(Flush(Refs, editorText))
    /\ pendingEffects' = EffectsAfter(TRUE, selectedVar, FALSE)
    /\ pendingCalls' = pendingCalls - 1
    /\ UNCHANGED <<editorText, allTraceData, scopeInfo, errorMessage, selectedVar, hoveredVar>>

(* invalidateTrace, called by the content listener; text is the editor's
   content by then. *)
invalidateTrace(text) ==
    /\ allTraceData' = EmptyDict
    /\ scopeInfo' = EmptyScopeInfo
    /\ selectedVar' = ""
    /\ hoveredVar' = Null
    /\ errorMessage' = Null
    /\ hasRun' = FALSE
    /\ output' = <<>>
    /\ SetRefs(Flush([Refs EXCEPT !.decorationsRef = {},
                                  !.lineToVarMapRef = EmptyDict,
                                  !.scopeInfoRef = EmptyScopeInfo,
                                  !.selectedVarRef = ""], text))
    /\ pendingEffects' = EffectsAfter(FALSE, "", TRUE)

(* The user changes the text: onDidChangeModelContent fires.  The listener
   registered in handleEditorMount closed over hasRun = false and does
   nothing; the one registered by the [hasRun] effect decides by the hasRun
   it closed over. *)
Edit(text) ==
    /\ text # editorText
    /\ editorText' = text
    /\ IF contentListener.registered /\ contentListener.hasRun
       THEN invalidateTrace(text)
       ELSE UNCHANGED <<hasRun, output, allTraceData, scopeInfo, errorMessage, selectedVar,
                        hoveredVar, contentListener, lineToVarMapRef, scopeInfoRef,
                        selectedVarRef, decorationsRef, pendingEffects>>
    /\ UNCHANGED <<running, pendingCalls>>
    /\ UNCHANGED TracerState

(* The variable dropdown: onChange. *)
SelectVar(v) ==
    /\ v # selectedVar
    /\ selectedVar' = v
    /\ SetRefs(Flush(Refs, editorText))
    /\ pendingEffects' = EffectsAfter(hasRun, v, FALSE)
    /\ UNCHANGED <<editorText, running, hasRun, output, allTraceData, scopeInfo,
                   errorMessage, hoveredVar, pendingCalls>>
    /\ UNCHANGED TracerState

\* The refs after the mouse left the variable it hovered: the selected
\* variable is highlighted again, or nothing is.
Unhovered ==
    [Refs EXCEPT !.decorationsRef =
        IF selectedVarRef # ""
        THEN highlightVariable(selectedVarRef, 0,
                               OccursOn(Sources[editorText], getRawVarName(selectedVarRef)),
                               scopeInfoRef)
        ELSE {}]

\* A commit happens, and the pending effects run before it, only when a
\* state variable changes.
CommitHover(r) ==
    IF <<hoveredVar', selectedVar'>> # <<hoveredVar, selectedVar>>
    THEN /\ SetRefs(Flush(r, editorText))
         /\ pendingEffects' = EffectsAfter(hasRun, selectedVar', FALSE)
    ELSE /\ SetRefs(r)
         /\ UNCHANGED pendingEffects

(* handleLineHover: the mouse moves over a line of the editor. *)
handleLineHover(lineNumber) ==
    /\ IF lineNumber \in DOMAIN lineToVarMapRef
       THEN /\ hoveredVar' = Str(lineToVarMapRef[lineNumber])
            /\ selectedVar' = lineToVarMapRef[lineNumber]
            /\ CommitHover([Refs EXCEPT !.decorationsRef =
                  highlightVariable(lineToVarMapRef[lineNumber], lineNumber,
                                    OccursOn(Sources[editorText],
                                             getRawVarName(lineToVarMapRef[lineNumber])),
                                    scopeInfoRef)])
       ELSE /\ hoveredVar' = Null
            /\ UNCHANGED selectedVar
            /\ CommitHover(Unhovered)
    /\ UNCHANGED <<editorText, running, hasRun, output, allTraceData, scopeInfo,
                   errorMessage, pendingCalls>>
    /\ UNCHANGED TracerState

(* editor.onMouseLeave *)
MouseLeave ==
    /\ hoveredVar' = Null
    /\ UNCHANGED selectedVar
    /\ CommitHover(Unhovered)
    /\ UNCHANGED <<editorText, running, hasRun, output, allTraceData, scopeInfo,
                   errorMessage, pendingCalls>>
    /\ UNCHANGED TracerState

InitUI == Init /\ code = editorText

NextUI ==
    \/ handleRun /\ UNCHANGED DiagramVars
    \/ run_with_trace /\ UNCHANGED UIVars
    \/ TraceCall /\ UNCHANGED UIVars
    \/ TraceLine /\ UNCHANGED UIVars
    \/ ExecInstr /\ UNCHANGED UIVars
    \/ TraceException /\ UNCHANGED UIVars
    \/ TraceReturn /\ UNCHANGED UIVars
    \/ run_with_trace_return /\ UNCHANGED UIVars
    \/ handleRunResolved /\ UNCHANGED DiagramVars
    \/ handleRunRejected /\ UNCHANGED DiagramVars
    \/ \E text \in UISources : Edit(text) /\ UNCHANGED DiagramVars
    \/ FlushEffects /\ UNCHANGED DiagramVars
    \/ \E v \in DOMAIN allTraceData \cup {""} : SelectVar(v) /\ UNCHANGED DiagramVars
    \/ \E lineNumber \in HoverLines : handleLineHover(lineNumber) /\ UNCHANGED DiagramVars
    \/ MouseLeave /\ UNCHANGED DiagramVars

SpecUI == InitUI /\ [][NextUI]_vars

\* The steps of a run of the page that need no user: the awaited call goes
\* on by itself until it settles and handleRun continues.
RunStep ==
    \/ run_with_trace /\ UNCHANGED UIVars
    \/ TraceCall /\ UNCHANGED UIVars
    \/ TraceLine /\ UNCHANGED UIVars
    \/ ExecInstr /\ UNCHANGED UIVars
    \/ TraceException /\ UNCHANGED UIVars
    \/ TraceReturn /\ UNCHANGED UIVars
    \/ run_with_trace_return /\ UNCHANGED UIVars
    \/ handleRunResolved /\ UNCHANGED DiagramVars
    \/ handleRunRejected /\ UNCHANGED DiagramVars

\* The page, with a run in flight going on until it has settled.
SpecUILive == SpecUI /\ WF_vars(RunStep)

-----------------------------------------------------------------------------
(* The highlighting of a variable, for every scope info over lines 1..MaxLine
   and the scopes f and g *)

\* A dict with some of the keys, each with one of the values.
Dicts(keys, values) == UNION {[d -> values] : d \in SUBSET keys}

\* The scope infos of a text whose only function is f and whose only global
\* declaration, if any, names x.
ScopeInfos ==
    [lineToScope : Dicts(HoverLines, {"global", "f"}),
     scopeToLocals : Dicts({"f"}, {{}, {"x"}}),
     globalDeclarations : {EmptyDict} \cup {l :> <<"x">> : l \in HoverLines}]

HighlightVars == {"global::x", "f::x", "g::x"}

LineMaps == {EmptyDict, 1 :> "global::x"}

InitHighlight ==
    /\ code = "dup"
    /\ InitTracer
    /\ InitPage
    /\ editorText = "dup"
    /\ lineToVarMapRef \in LineMaps
    /\ scopeInfoRef \in ScopeInfos

NextHighlight ==
    \/ \E v \in HighlightVars \cup {""} : SelectVar(v) /\ UNCHANGED DiagramVars
    \/ FlushEffects /\ UNCHANGED DiagramVars
    \/ \E lineNumber \in HoverLines : handleLineHover(lineNumber) /\ UNCHANGED DiagramVars
    \/ MouseLeave /\ UNCHANGED DiagramVars

SpecHighlight == InitHighlight /\ [][NextHighlight]_vars

-----------------------------------------------------------------------------
(* The diagram pane: renderDiagram and the effect that calls it *)

MaxRenders == 2    \* mermaid.render calls pending at a time

\* const activeVar = hoveredVar || selectedVar
activeVar == IF hoveredVar # Null /\ hoveredVar.str # "" THEN hoveredVar.str ELSE selectedVar

\* mermaidSafe: quotes become apostrophes, angle brackets are dropped,
\* newlines become spaces, at most 80 characters are kept.
mermaidSafe(value) ==
    IF value = "<unrepresentable>" THEN "unrepresentable" ELSE value

\* generateMermaid: one node per event, labelled with the raw name, the value,
\* the line, and the function of the assignment when that is not the
\* variable's scope; an error node at the end.
generateMermaid(trace, scopedVar, error) ==
    [nodes |-> [j \in 1..Len(trace) |->
                  [name |-> getRawVarName(scopedVar),
                   value |-> mermaidSafe(trace[j].value),
                   line |-> trace[j].line,
                   location |-> IF trace[j].assignedIn # getScope(scopedVar)
                                THEN trace[j].assignedIn ELSE ""]],
     error |-> IF error = Null THEN "" ELSE mermaidSafe(error.str)]

\* renderDiagram up to its await, as the commit of hasRun hr, allTraceData
\* data, errorMessage err and active variable av sees it; d holds the pane
\* and the pending renders.
renderDiagram(hr, data, err, av, d) ==
    IF ~hr
    THEN [d EXCEPT !.diagramRef = Placeholder("code must be run :)")]
    ELSE IF err # Null /\ data = EmptyDict
    THEN [d EXCEPT !.diagramRef = Placeholder("code must be run without syntax errors :))")]
    ELSE IF Lookup(data, av, <<>>) = <<>> /\ err = Null
    THEN [d EXCEPT !.diagramRef = Placeholder("Hover over an assignment or select a variable")]
    ELSE [d EXCEPT !.rendering = Append(@, generateMermaid(Lookup(data, av, <<>>), av, err))]

Pane == [diagramRef |-> diagramRef, rendering |-> rendering]

\* The effect [activeVar, allTraceData, errorMessage, hasRun] after a commit.
RenderEffect(d) ==
    /\ diagramRef' = renderDiagram(hasRun', allTraceData', errorMessage', activeVar', d).diagramRef
    /\ rendering' = renderDiagram(hasRun', allTraceData', errorMessage', activeVar', d).rendering
    /\ Len(rendering') <= MaxRenders

\* What this part of the page leaves alone.
DiagramRest ==
    <<TracerState, editorText, scopeInfo, contentListener, lineToVarMapRef, scopeInfoRef,
      selectedVarRef, decorationsRef, pendingEffects, pendingCalls>>

\* The bundles runAndTrace resolves with for four sources.
DiagramResults ==
    {[traceData |-> "global::x" :> <<Event(1, "global", "global", "1")>>
                    @@ "global::y" :> <<Event(3, "global", "global", "2")>>,
      errorMessage |-> Null],
     [traceData |-> "global::x" :> <<Event(4, "global", "global", "1"),
                                     Event(3, "global", "f", "2")>>,
      errorMessage |-> Null],
     [traceData |-> "global::x" :> <<Event(1, "global", "global", "1"),
                                     Event(2, "global", "global", "5")>>,
      errorMessage |-> Str("ZeroDivisionError: integer division or modulo by zero")],
     [traceData |-> EmptyDict,
      errorMessage |-> Str("SyntaxError: '(' was never closed")]}

(* handleRun up to the await; the effect then shows the placeholder. *)
DiagramRun ==
    /\ ~running
    /\ running' = TRUE
    /\ output' = <<"Running...", "\n">>
    /\ allTraceData' = EmptyDict
    /\ selectedVar' = ""
    /\ hoveredVar' = Null
    /\ errorMessage' = Null
    /\ hasRun' = FALSE
    /\ RenderEffect([Pane EXCEPT !.diagramRef = Cleared])
    /\ UNCHANGED DiagramRest

(* handleRun after the await, the call resolved with bundle r. *)
DiagramRunResolved(r) ==
    /\ running
    /\ allTraceData' = r.traceData
    /\ errorMessage' = r.errorMessage
    /\ output' = <<"(no output)">>
    /\ hasRun' = TRUE
    /\ running' = FALSE
    /\ UNCHANGED <<selectedVar, hoveredVar>>
    /\ RenderEffect(Pane)
    /\ UNCHANGED DiagramRest

(* The text is edited after a run: invalidateTrace. *)
DiagramInvalidate ==
    /\ hasRun
    /\ allTraceData' = EmptyDict
    /\ selectedVar' = ""
    /\ hoveredVar' = Null
    /\ errorMessage' = Null
    /\ hasRun' = FALSE
    /\ output' = <<>>
    /\ RenderEffect(Pane)
    /\ UNCHANGED running
    /\ UNCHANGED DiagramRest

(* The dropdown, or the mouse over the line of a variable, changes the
   active variable. *)
DiagramSelect(v) ==
    /\ v # activeVar
    /\ selectedVar' = v
    /\ hoveredVar' = Null
    /\ UNCHANGED <<running, hasRun, output, allTraceData, errorMessage>>
    /\ RenderEffect(Pane)
    /\ UNCHANGED DiagramRest

(* mermaid.render resolves, in the order of the calls: the svg is put in
   the pane. *)
renderDiagramResolved ==
    /\ rendering # <<>>
    /\ diagramRef' = Svg(Head(rendering))
    /\ rendering' = Tail(rendering)
    /\ UNCHANGED <<running, hasRun, output, allTraceData, errorMessage, selectedVar, hoveredVar>>
    /\ UNCHANGED DiagramRest

(* mermaid.render rejects: the catch clause shows the failure. *)
renderDiagramRejected ==
    /\ rendering # <<>>
    /\ diagramRef' = MermaidError(Head(rendering))
    /\ rendering' = Tail(rendering)
    /\ UNCHANGED <<running, hasRun, output, allTraceData, errorMessage, selectedVar, hoveredVar>>
    /\ UNCHANGED DiagramRest

InitDiagram == Init /\ code = editorText

NextDiagram ==
    \/ DiagramRun
    \/ \E r \in DiagramResults : DiagramRunResolved(r)
    \/ DiagramInvalidate
    \/ \E v \in DOMAIN allTraceData \cup {""} : DiagramSelect(v)
    \/ renderDiagramResolved
    \/ renderDiagramRejected

SpecDiagram == InitDiagram /\ [][NextDiagram]_vars

-----------------------------------------------------------------------------
(* Vocabulary of the properties *)

Names == {"x", "y", "i", "a", "b", "f", "g"}
FuncNames == {"f", "g"}

History(td, key) == IF key \in DOMAIN td THEN td[key] ELSE <<>>
Values(h) == [j \in 1..Len(h) |-> h[j].value]
IsPrefix(h1, h2) == Len(h1) <= Len(h2) /\ SubSeq(h2, 1, Len(h1)) = h1

\* The step appends at least one event to the history of key.
Appended(key) == Len(History(trace_data', key)) > Len(History(trace_data, key))
NewEvents(key) ==
    {trace_data'[key][j] : j \in (Len(History(trace_data, key)) + 1)..Len(History(trace_data', key))}

Resolved == result.status = "resolved"

-----------------------------------------------------------------------------
(* C1: deduplication.  In every history, of the running tracer and of every
   result handed to the caller, no two consecutive events carry the same
   value: a capture that observes the representation last recorded for a
   variable appends nothing. *)
NoRepeat(td) ==
    \A key \in DOMAIN td : \A j \in 1..(Len(td[key]) - 1) :
        td[key][j].value # td[key][j + 1].value

C1_Dedup == NoRepeat(trace_data) /\ NoRepeat(result.traceData)

\* x = 1 was assigned twice in a row, both assignments were captured, and
\* the history of x holds one event.
C1_Witness ==
    /\ code = "dup" /\ Resolved
    /\ Values(History(result.traceData, "global::x")) = <<"1">>

-----------------------------------------------------------------------------
(* C2: scope separation, as claimed.  An event appended to "global::n"
   carries the value of the module-level binding of n, and an event appended
   to "f::n" carries the value of n in the frame of f that is being captured:
   an assignment to a local of f never reaches "global::n", a module-level
   assignment never reaches "f::n". *)
C2_ScopeSeparation ==
    [][\A n \in Names :
          /\ Appended(ScopedKey("global", n)) =>
                /\ n \in DOMAIN globals
                /\ \A e \in NewEvents(ScopedKey("global", n)) :
                      e.value = safe_repr(globals[n])
          /\ \A f \in FuncNames :
                Appended(ScopedKey(f, n)) =>
                   /\ stack # <<>> /\ get_func_name(Top) = f
                   /\ n \in DOMAIN Top.locals
                   /\ \A e \in NewEvents(ScopedKey(f, n)) :
                         e.value = safe_repr(Top.locals[n])]_vars

-----------------------------------------------------------------------------
(* C3: global mutation visibility. *)

\* The assignments "n = <constant>" a function makes to a name it declares
\* global (a name that is neither a local, a cell nor a free variable of it).
IsGlobalWrite(c, ins) ==
    /\ c.kind = "function"
    /\ ins.op = "set" /\ ~ins.a.isvar
    /\ ins.var \notin c.co_varnames \cup c.co_cellvars \cup c.co_freevars

GlobalWrites(prog) ==
    UNION {{[f |-> c, pc |-> j, n |-> prog.code[c].instrs[j].var,
             v |-> ToString(prog.code[c].instrs[j].a.n)] :
              j \in {k \in 1..Len(prog.code[c].instrs) :
                        IsGlobalWrite(prog.code[c], prog.code[c].instrs[k])}} :
           c \in DOMAIN prog.code}

\* g is called by f on the line of instruction pc, after that instruction.
CalledAfterOnLine(prog, f, pc, g) ==
    \E j \in (pc + 1)..Len(prog.code[f].instrs) :
        /\ prog.code[f].instrs[j].line = prog.code[f].instrs[pc].line
        /\ prog.code[f].instrs[j].op = "call"
        /\ prog.code[f].instrs[j].var = g

\* The events that record a write w.
EventsOf(td, w) ==
    {e \in {History(td, ScopedKey("global", w.n))[j] :
               j \in 1..Len(History(td, ScopedKey("global", w.n)))} : e.value = w.v}

(* C3 as claimed: the event that records a change a function f makes to a
   name it declares global is stored under "global::name" with function
   "global" and assignedIn f. *)
C3_Original ==
    \A w \in GlobalWrites(user_code) : \A e \in EventsOf(trace_data, w) :
        e.function = "global" /\ e.assignedIn = w.f

(* C3 amended: the event that records a change a function f makes to a name
   it declares global is stored under "global::name" with function "global";
   assignedIn is never "global": it is f, or a function f calls on the same
   line after the assignment, whose frame then makes the first capture. *)
C3_GlobalMutation ==
    \A w \in GlobalWrites(user_code) : \A e \in EventsOf(trace_data, w) :
        /\ e.function = "global"
        /\ e.assignedIn # "global"
        /\ e.assignedIn = w.f \/ CalledAfterOnLine(user_code, w.f, w.pc, e.assignedIn)

\* f declared x global and set it to 2; the event is attributed to f.
C3_Witness ==
    /\ code = "global" /\ Resolved
    /\ \E e \in EventsOf(result.traceData, [f |-> "f", pc |-> 1, n |-> "x", v |-> "2"]) :
          e.assignedIn = "f" /\ e.function = "global"

-----------------------------------------------------------------------------
(* C4: run independence.  Once a source has been run and its result
   delivered, every later run of the same source in the same process
   delivers the same traceMap, errorMessage and output, whatever ran in
   between. *)
C4_RunIndependence ==
    [][\A src \in SourceIds :
          delivered[src].status = "resolved" => delivered'[src] = delivered[src]]_vars

\* A third run is under way for a source that was already run, and another
\* source has failed in this process.
C4_Witness ==
    /\ runs = 3 /\ phase = "returned"
    /\ delivered[code].status = "resolved"
    /\ jsonString.traceData # EmptyDict
    /\ \E other \in SourceIds \ {code} :
          delivered[other].status = "resolved" /\ ~delivered[other].errorMessage.null

-----------------------------------------------------------------------------
(* C5: a source that raises partway through. *)

Unwinding == phase = "exec" /\ exc # NoExc

(* C5 as claimed: the traceMap holds exactly the events observed before the
   fault; nothing is recorded for the faulting line or after it. *)
C5_Original == [][Unwinding => trace_data' = trace_data]_vars

(* C5, its last part: a run whose source raised an uncaught failure ends by
   returning a result whose errorMessage is non-null. *)
C5_FaultResult ==
    [][(Unwinding /\ phase' # "exec") =>
          (phase' = "returned" /\ ~jsonString'.errorMessage.null)]_vars

\* A failure has been raised in this run: it is propagating, or it is kept
\* pending by a frame that is running a finally clause.
Faulted ==
    /\ phase = "exec"
    /\ exc # NoExc \/ \E i \in 1..Len(stack) : stack[i].pending # NoExc

(* What holds of C5, for the failures run_with_trace catches: while the failure propagates no instruction of the program
   runs other than the finally clauses it passes through, and every event
   recorded before the fault is kept, in order; the captures made from then
   on (on the exception and return events of the frames being unwound and on
   the lines of a finally clause) may still append events, each carrying the
   line at which its frame stood (the faulting line, the line of the pending
   call, or a line of the finally clause); the result that is returned has a
   non-null errorMessage. *)
C5_FaultTrace ==
    [][Faulted =>
          /\ Unwinding => globals' = globals /\ printOutput' = printOutput
          /\ \A key \in DOMAIN trace_data :
                IsPrefix(trace_data[key], History(trace_data', key))
          /\ \A key \in DOMAIN trace_data' :
                Appended(key) =>
                   /\ stack # <<>>
                   /\ \A e \in NewEvents(key) : e.line = Top.f_lineno
          /\ phase' = "returned" =>
                /\ ~jsonString'.errorMessage.null
                /\ jsonString'.traceData = trace_data]_vars

\* f(0) faulted on its first line; the exception capture recorded the
\* argument on that line and the result carries the failure.
C5_Witness ==
    /\ code = "paramfault" /\ Resolved
    /\ ~result.errorMessage.null
    /\ \E e \in {History(result.traceData, "f::a")[j] :
                    j \in 1..Len(History(result.traceData, "f::a"))} : e.line = 2

-----------------------------------------------------------------------------
(* C6: sources with no assignments. *)

BindsVariable(ins) ==
    ins.op \in {"set", "aug", "for"} \/ (ins.op = "div" /\ ins.var # "")

NoAssignments(prog) ==
    \A c \in DOMAIN prog.code :
        /\ prog.code[c].params = <<>>
        /\ \A j \in 1..Len(prog.code[c].instrs) : ~BindsVariable(prog.code[c].instrs[j])

(* C6 as claimed: for a source with no assignments the traceMap is empty and
   errorMessage is null. *)
C6_Original ==
    (Resolved /\ NoAssignments(user_code)) =>
        result.traceData = EmptyDict /\ result.errorMessage.null

(* C6 amended: for a source with no assignments the traceMap is empty, and
   errorMessage is null when the source raises no uncaught failure. *)
C6_NoAssignments ==
    [][NoAssignments(user_code') =>
          /\ trace_data' = EmptyDict
          /\ result'.traceData = EmptyDict
          /\ (phase = "exec" /\ phase' = "returned" /\ exc = NoExc) =>
                jsonString'.errorMessage.null
          /\ (phase = "returned" /\ result'.status = "resolved") =>
                result'.errorMessage = jsonString.errorMessage]_vars

\* print(1) has run to completion.
C6_Witness ==
    /\ code = "noassign" /\ Resolved
    /\ result.output = <<"1", "\n">>
    /\ result.errorMessage.null

-----------------------------------------------------------------------------
(* C7: x = 0 / for i in range(3): / x += i / print(x). *)

(* C7 as claimed: "global::x" has four events with values 0, 0, 1, 3. *)
C7_Original ==
    (Resolved /\ code = "loop") =>
        /\ Values(History(result.traceData, "global::x")) = <<"0", "0", "1", "3">>
        /\ result.output = <<"3", "\n">>

(* C7 amended: "global::x" has three events, 0 on line 1 and 1 and 3 on line
   3 (the first pass of the loop adds 0, leaves x unchanged and records
   nothing); the printed output is "3" and a line break. *)
C7_LoopExample ==
    (Resolved /\ code = "loop") =>
        /\ History(result.traceData, "global::x") =
              <<Event(1, "global", "global", "0"), Event(3, "global", "global", "1"),
                Event(3, "global", "global", "3")>>
        /\ result.output = <<"3", "\n">>
        /\ result.errorMessage.null

C7_Witness ==
    /\ code = "loop" /\ Resolved
    /\ Len(History(result.traceData, "global::x")) = 3

-----------------------------------------------------------------------------
(* C8: a source with a syntax error records no trace event at any time, and
   its run returns an empty traceMap, a non-null errorMessage and an output
   that is the error marker line alone. *)
C8_SyntaxError ==
    ~user_code.syntaxOK =>
        /\ trace_data = EmptyDict
        /\ phase = "returned" => ~jsonString.errorMessage.null
        /\ Resolved =>
              /\ result.traceData = EmptyDict
              /\ ~result.errorMessage.null
              /\ result.output = <<ErrorMarker \o result.errorMessage.str>>

C8_Witness ==
    /\ code = "syntax" /\ Resolved
    /\ result.errorMessage = Str("SyntaxError: '(' was never closed")

-----------------------------------------------------------------------------
(* C9 as claimed: runAndTrace rejects only when the host runtime failed to
   initialise; a failure of the user's program is folded into a resolved
   result with a non-null errorMessage. *)
C9_NeverRejects == result.status = "rejected" => ~pyodideInstance

-----------------------------------------------------------------------------
(* C10 as claimed: with a non-null errorMessage the output is the captured
   output followed by a final line made of the marker and the message (after
   a separating line break when something was captured); with a null
   errorMessage the output is the captured output. *)
C10_OutputComposition ==
    Resolved =>
        IF result.errorMessage.null THEN result.output = printOutput
        ELSE result.output =
                printOutput \o (IF printOutput # <<>> THEN <<"\n">> ELSE <<>>)
                \o <<ErrorMarker \o result.errorMessage.str>>

-----------------------------------------------------------------------------
(* C11: the trace hook is armed for exactly the duration of exec(). *)

\* A step of the tracer: one of its callbacks is processed.
TracerStep == TraceCall \/ TraceLine \/ TraceException \/ TraceReturn

(* C11: the hook is armed when run_with_trace starts executing the source and
   is disarmed when run_with_trace ends, whether it returns (normal completion
   or a caught failure) or raises; while the hook is disarmed no callback is
   processed and trace_data, prev_vars and frame_prev_line do not change until
   the next runAndTrace call. *)
C11_HookDiscipline ==
    [][/\ hooked' <=> phase' = "exec"
       /\ ~hooked => ~TracerStep
       /\ (~hooked /\ runs' = runs) => UNCHANGED TracerVars]_vars

\* x = 1 / raise SystemExit: run_with_trace raised with x recorded; the hook
\* is disarmed.
C11_Witness ==
    /\ code = "sysexit" /\ result.status = "rejected" /\ pyodideInstance
    /\ "global::x" \in DOMAIN trace_data
    /\ ~hooked

-----------------------------------------------------------------------------
(* C12: the partial trace of a failing run. *)

(* C12: a run that fails ends by returning a result: every event appended
   before the failure is in the returned traceMap, in place and in order, and
   error_message is set; once error_message is set the program is no longer
   running (no frame is left, its globals and output no longer change) and no
   event is appended. *)
C12_PartialTrace ==
    [][/\ (Faulted /\ phase' = "exec") =>
             \A key \in DOMAIN trace_data :
                 IsPrefix(trace_data[key], History(trace_data', key))
       /\ (Faulted /\ phase' # "exec") =>
             /\ phase' = "returned"
             /\ ~error_message'.null
             /\ jsonString'.errorMessage = error_message'
             /\ \A key \in DOMAIN trace_data :
                   IsPrefix(trace_data[key], History(jsonString'.traceData, key))
       /\ (phase = "returned" /\ phase' = "idle") =>
             result'.traceData = jsonString.traceData
       /\ (~error_message.null /\ runs' = runs) =>
             /\ stack = <<>> /\ stack' = <<>>
             /\ UNCHANGED <<trace_data, globals, printOutput>>]_vars

-----------------------------------------------------------------------------
(* C13: the scope of a scoped variable. *)

Events(h) == {h[j] : j \in 1..Len(h)}

(* C13: in every reachable state every event stored in trace_data under a
   key "s::n" has function = s, and s is "global" or the name of a function
   of the program. *)
C13_ScopeFixed ==
    \A key \in DOMAIN trace_data : \A e \in Events(trace_data[key]) :
        /\ e.function \in {"global"} \cup {FuncName(c) : c \in DOMAIN user_code.code}
        /\ \E n \in Names : key = ScopedKey(e.function, n)

\* x is bound in the module and in f: both keys hold events, each of its scope.
C13_Witness ==
    /\ code = "shadow" /\ phase = "exec"
    /\ \E e \in Events(History(trace_data, "f::x")) : e.function = "f"
    /\ \E e \in Events(History(trace_data, "global::x")) : e.function = "global"

-----------------------------------------------------------------------------
(* C14: histories are append-only. *)

(* C14: every step within a run keeps every key of trace_data and leaves its
   history a prefix of the later one. *)
C14_AppendOnly ==
    [][runs' = runs =>
          \A key \in DOMAIN trace_data :
              /\ key \in DOMAIN trace_data'
              /\ IsPrefix(trace_data[key], trace_data'[key])]_vars

\* A history has just grown by an event whose line is smaller than that of
\* the event before it: x = 1 on line 4, then x = 2 in f on line 3.
C14_Witness ==
    /\ phase = "exec"
    /\ \E key \in DOMAIN trace_data :
          /\ Len(trace_data[key]) >= 2
          /\ Last(trace_data[key]).line < trace_data[key][Len(trace_data[key]) - 1].line

-----------------------------------------------------------------------------
(* C15: an edit after a completed run invalidates the trace. *)

Invalidated ==
    /\ allTraceData = EmptyDict
    /\ scopeInfo = EmptyScopeInfo
    /\ selectedVar = "" /\ hoveredVar = Null
    /\ errorMessage = Null
    /\ output = <<>>
    /\ ~hasRun

(* C15: every change of the editor's content made while hasRun is true
   leaves trace data and scope info empty, no variable selected or hovered,
   errorMessage null, the output empty and hasRun false. *)
C15_EditInvalidates ==
    [][(hasRun /\ editorText' # editorText) => Invalidated']_vars

(* What holds of C15: the edit invalidates once the [hasRun] effect of the
   commit that set hasRun has run. *)
C15_EditAfterEffects ==
    [][(hasRun /\ "hasRun" \notin pendingEffects /\ editorText' # editorText)
          => Invalidated']_vars

-----------------------------------------------------------------------------
(* C17: no overlapping runs. *)

(* C17: at most one runAndTrace call of the page is pending; the Run button
   is disabled (running) exactly while one is, so the tracer only works for
   a call made while no other was pending. *)
C17_NoOverlap ==
    /\ pendingCalls \in {0, 1}
    /\ running <=> pendingCalls = 1
    /\ phase # "idle" => running

\* A second run, started after the first one settled, is in flight.
C17_Witness ==
    /\ runs = 2 /\ phase = "exec" /\ running /\ pendingCalls = 1

(* What holds of C12: the same, for the runs whose failure run_with_trace
   catches (an Exception); a failure it does not catch leaves no result. *)
C12_CaughtFailure ==
    [][/\ (Faulted /\ phase' = "exec") =>
             \A key \in DOMAIN trace_data :
                 IsPrefix(trace_data[key], History(trace_data', key))
       /\ (Faulted /\ phase' = "returned") =>
             /\ ~error_message'.null
             /\ jsonString'.errorMessage = error_message'
             /\ \A key \in DOMAIN trace_data :
                   IsPrefix(trace_data[key], History(jsonString'.traceData, key))
       /\ (phase = "returned" /\ phase' = "idle") =>
             result'.traceData = jsonString.traceData
       /\ (~error_message.null /\ runs' = runs) =>
             /\ stack = <<>> /\ stack' = <<>>
             /\ UNCHANGED <<trace_data, globals, printOutput>>]_vars

\* C16: scope-aware highlighting.  Once the effects of selecting a variable
\* have run and the mouse hovers nothing, an occurrence of a local f::x is
\* highlighted only on a line whose lineToScope is f; an occurrence of a
\* global::x on a line tagged with a function g is highlighted only if x is
\* not in scopeToLocals[g] or the line carries a global declaration naming x;
\* an occurrence of it on a line tagged "global" is always highlighted.
Settled ==
    /\ pendingEffects = {}
    /\ hoveredVar = Null
    /\ selectedVar # ""
    /\ selectedVarRef = selectedVar

Highlighted(l) == Decoration(l, "variable-highlight") \in decorationsRef

Tagged(l, scope) ==
    l \in DOMAIN scopeInfoRef.lineToScope /\ scopeInfoRef.lineToScope[l] = scope

LocalTo(x, scope) ==
    scope \in DOMAIN scopeInfoRef.scopeToLocals /\ x \in scopeInfoRef.scopeToLocals[scope]

DeclaredGlobalOn(l, x) ==
    /\ l \in DOMAIN scopeInfoRef.globalDeclarations
    /\ \E j \in 1..Len(scopeInfoRef.globalDeclarations[l]) :
          scopeInfoRef.globalDeclarations[l][j] = x

C16_ScopeAwareHighlight ==
    Settled =>
      \A x \in KeyNames :
        \A l \in OccursOn(Sources[editorText], x) :
          /\ \A f \in KeyScopes \ {"global"} :
                (selectedVar = ScopedKey(f, x) /\ Highlighted(l)) => Tagged(l, f)
          /\ \A g \in KeyScopes \ {"global"} :
                (selectedVar = ScopedKey("global", x) /\ Tagged(l, g) /\ Highlighted(l))
                   => (~LocalTo(x, g) \/ DeclaredGlobalOn(l, x))
          /\ (selectedVar = ScopedKey("global", x) /\ Tagged(l, "global")) => Highlighted(l)

\* global::x is selected; its occurrence on line 1, tagged "global", is
\* highlighted and the one on line 2, inside f where x is local, is not.
C16_Witness ==
    /\ Settled
    /\ selectedVar = "global::x"
    /\ Tagged(1, "global") /\ Highlighted(1)
    /\ Tagged(2, "f") /\ LocalTo("x", "f") /\ ~DeclaredGlobalOn(2, "x")
    /\ ~Highlighted(2)

-----------------------------------------------------------------------------
\* The lines of the events a step appends to the histories.
AppendedLines ==
    UNION {{trace_data'[k][j].line :
              j \in (Len(History(trace_data, k)) + 1)..Len(trace_data'[k])} :
           k \in DOMAIN trace_data'}

GrowsOnly ==
    \A k \in DOMAIN trace_data :
       k \in DOMAIN trace_data' /\ IsPrefix(trace_data[k], trace_data'[k])

(* C18: deferred capture.  On a line event of a frame entering line L2, if the
   frame has a recorded line L1 the capture is made with L1, so every event
   the step appends carries L1, and the record becomes L2; a frame without a
   recorded line appends no event and only stores the line. *)
C18_DeferredCapture ==
    [][TraceLine =>
         /\ GrowsOnly
         /\ frame_prev_line' = (Top.id :> NextIns(Top).line) @@ frame_prev_line
         /\ IF Top.id \in DOMAIN frame_prev_line
            THEN /\ AppendedLines \subseteq {frame_prev_line[Top.id]}
                 /\ trace_data' = capture_changes(trace_data, prev_vars, Len(stack),
                                                  frame_prev_line[Top.id]).trace_data
            ELSE /\ trace_data' = trace_data
                 /\ prev_vars' = prev_vars]_vars

\* x = 1 / x = 1 / y = 2: entering line 2 has recorded x with line 1, and the
\* module frame's record is now line 2.
C18_Witness ==
    /\ code = "dup" /\ phase = "exec" /\ Len(stack) = 1
    /\ "global::x" \in DOMAIN trace_data
    /\ Last(trace_data["global::x"]).line = 1
    /\ Top.id \in DOMAIN frame_prev_line
    /\ frame_prev_line[Top.id] = 2

\* def f(a): / b = a / return b / f(1) / f(1): f was entered and its first
\* line event stored line 2 without recording the argument a.
C18_FirstLineWitness ==
    /\ code = "twice" /\ phase = "exec" /\ Len(stack) = 2
    /\ Top.id \in DOMAIN frame_prev_line
    /\ frame_prev_line[Top.id] = 2
    /\ "f::a" \notin DOMAIN trace_data

(* C19: on the return event of a frame with a recorded line one capture is
   made with that line and the frame's entry is removed from frame_prev_line;
   so every entry belongs to a frame that is still active, the first line
   event of a frame, whatever its identity, appends nothing, and no entry is
   left when the run has ended. *)
C19_ReturnDiscards ==
    [][/\ TraceReturn =>
            /\ GrowsOnly
            /\ Top.id \notin DOMAIN frame_prev_line'
            /\ Top.id \in DOMAIN frame_prev_line =>
                  /\ AppendedLines \subseteq {frame_prev_line[Top.id]}
                  /\ trace_data' = capture_changes(trace_data, prev_vars, Len(stack),
                                                   frame_prev_line[Top.id]).trace_data
       /\ (TraceLine /\ Top.f_lineno = 0) => trace_data' = trace_data
       /\ DOMAIN frame_prev_line' \subseteq {stack'[j].id : j \in 1..Len(stack')}
       /\ phase' \in {"returned", "idle"} => frame_prev_line' = EmptyDict]_vars

\* def f(): / global x / x = 2 / x = 1 / f(): f has returned; its last line,
\* line 3, gave x its last event at the return, and only the module frame has
\* an entry left.
C19_Witness ==
    /\ code = "global" /\ phase = "exec" /\ Len(stack) = 1
    /\ "global::x" \in DOMAIN trace_data
    /\ Last(trace_data["global::x"]).line = 3
    /\ DOMAIN frame_prev_line = {Top.id}

(* C20: change detection is per call frame, so the first value a fresh
   activation of f gives a local is recorded even if an earlier activation
   last held the same value: the two calls f(1) of
   def f(a): / b = a / return b / f(1) / f(1)
   record a and b twice. *)
C20_PerFrame ==
    delivered["twice"].status = "resolved" =>
       /\ Len(History(delivered["twice"].traceData, "f::a")) = 2
       /\ Len(History(delivered["twice"].traceData, "f::b")) = 2

-----------------------------------------------------------------------------
(* The capture points: a line or return event of a frame with a recorded
   line, and an exception event. *)

CapturePoint ==
    \/ (TraceLine \/ TraceReturn) /\ Top.id \in DOMAIN frame_prev_line
    \/ TraceException

\* The line the capture is made with.
CompletedLine ==
    IF exc # NoExc /\ ~Top.notified THEN Top.f_lineno ELSE frame_prev_line[Top.id]

Get1(d, k) == IF k \in DOMAIN d THEN d[k] ELSE ""

\* The keys of the names whose value the capture cannot classify.
Unclassified(ns) ==
    {ScopedKey(sc, k) : sc \in {"global", get_func_name(Top)},
                        k \in {n \in DOMAIN ns : is_function_raises(ns[n])}}

(* C21: at every capture point of a user frame with completed line L, each
   variable the capture sees (the frame's locals, then the module-level
   bindings not covered by them) gets exactly one event with line L and its
   current representation if its key has no recorded representation or a
   different one, and none otherwise; prev_vars of the key is then the
   current representation. *)
C21_CaptureStep ==
    [][(CapturePoint /\ CodeOf(Top).origin = "user") =>
          \A cv \in {c \in current_vars(Len(stack)) :
                       c.key \notin Unclassified(f_locals(Len(stack)))
                                        \cup Unclassified(f_globals(Len(stack)))} :
             /\ cv.key \in DOMAIN prev_vars' /\ prev_vars'[cv.key] = cv.repr
             /\ IF cv.key \notin DOMAIN prev_vars \/ prev_vars[cv.key] # cv.repr
                THEN /\ cv.key \in DOMAIN trace_data'
                     /\ Len(trace_data'[cv.key]) = Len(History(trace_data, cv.key)) + 1
                     /\ Last(trace_data'[cv.key]).line = CompletedLine
                     /\ Last(trace_data'[cv.key]).value = cv.repr
                ELSE History(trace_data', cv.key) = History(trace_data, cv.key)]_vars

(* C22: a variable whose value cannot be classified or rendered does not keep
   the capture from recording the other variables that changed: each of them
   gets its event at that capture point; the failure does not reach
   error_message and raises nothing in the program. *)
C22_CaptureIsolation ==
    [][(CapturePoint /\ CodeOf(Top).origin = "user") =>
          /\ \A cv \in current_vars(Len(stack)) :
                (cv.repr # "<unrepresentable>" /\ Get1(prev_vars, cv.key) # cv.repr)
                   => Len(History(trace_data', cv.key)) = Len(History(trace_data, cv.key)) + 1
          /\ error_message' = error_message
          /\ exc' = exc]_vars

(* C23: a value whose repr() raises is rendered as "<unrepresentable>": the
   capture that sees a variable bound to such a value completes, records the
   variable with that text and remembers the text in prev_vars. *)
C23_Sentinel ==
    [][(CapturePoint /\ CodeOf(Top).origin = "user") =>
          \A k \in DOMAIN globals :
             (is_user_var(k) /\ globals[k] = ObjVal("badrepr")) =>
                /\ ScopedKey("global", k) \in DOMAIN trace_data'
                /\ Last(trace_data'[ScopedKey("global", k)]).value = "<unrepresentable>"
                /\ prev_vars'[ScopedKey("global", k)] = "<unrepresentable>"
                /\ exc' = exc /\ error_message' = error_message]_vars

\* x = 1 / y = <repr raises> / x = 2 has completed: y holds the one event
\* "<unrepresentable>" of line 2, x was recorded before and after it, and
\* there is no error message.
C23_Witness ==
    /\ code = "badrepr" /\ Resolved
    /\ result.errorMessage.null
    /\ Values(History(result.traceData, "global::y")) = <<"<unrepresentable>">>
    /\ Values(History(result.traceData, "global::x")) = <<"1", "2">>

(* C24: identity scope.  A capture in a frame of function f records a name
   of the frame's local namespace under "f::name" when the binding lives in
   f, and an event appended under "global::name" by a capture in a function
   frame never comes from a binding that lives in a function. *)
C24_IdentityScope ==
    [][(CapturePoint /\ CodeOf(Top).kind = "function" /\ CodeOf(Top).origin = "user") =>
          \A k \in DOMAIN f_locals(Len(stack)) :
             (is_user_var(k) /\ ~is_function(f_locals(Len(stack))[k])) =>
                /\ k \in DOMAIN Top.locals =>
                      /\ ScopedKey(get_func_name(Top), k) \in DOMAIN prev_vars'
                      /\ prev_vars'[ScopedKey(get_func_name(Top), k)]
                            = safe_repr(Top.locals[k])
                /\ Appended(ScopedKey("global", k)) =>
                      k \notin DOMAIN Top.locals \cup DOMAIN FreeVals(Len(stack))]_vars

(* C25: exclusions.  No key of trace_data names a variable that starts with
   an underscore or is one of the tracer's own names, no event holds the
   representation of a function, and a capture appends an event for a name
   only if the value it sees for it is not a function. *)
ExcludedSample == {"_t", "_cls", "_tuple_new", "__name__", "__builtins__", "json", "sys"}

FunctionReprs == {"<function " \o c \o ">" : c \in UNION {DOMAIN Sources[src].code : src \in SourceIds}}

C25_Exclusions ==
    [][/\ \A key \in DOMAIN trace_data' :
             /\ key \notin {ScopedKey(sc, n) :
                               sc \in {"global", "<lambda>", "f", "g", "x"}, n \in ExcludedSample}
             /\ \A e \in Events(trace_data'[key]) : e.value \notin FunctionReprs
       /\ CapturePoint =>
             \A k \in DOMAIN f_locals(Len(stack)) :
                f_locals(Len(stack))[k].t = "func" =>
                   \A sc \in {"global", get_func_name(Top)} : ~Appended(ScopedKey(sc, k))]_vars

\* _t = 1 / json = 2 / def x(): / pass / x = 3 has completed: only x is
\* recorded, and only with the value 3 it got on line 5.
C25_Witness ==
    /\ code = "excluded" /\ Resolved
    /\ DOMAIN result.traceData = {"global::x"}
    /\ Values(result.traceData["global::x"]) = <<"3">>

(* C26: a trace callback for a frame whose code does not originate from the
   submitted source leaves trace_data, prev_vars and frame_prev_line
   unchanged, whatever the event. *)
C26_ForeignFrames ==
    [][(TracerStep /\ CodeOf(Top).origin # "user") => UNCHANGED TracerVars]_vars

\* The same for the frames the tracer tells apart by their file name.
C26_OtherFiles ==
    [][(TracerStep /\ CodeOf(Top).co_filename # "<string>") => UNCHANGED TracerVars]_vars

-----------------------------------------------------------------------------
(* Scope analysis *)

\* A ScopeInfo that is empty and carries the text of a failure.
ScopeError(info) ==
    /\ info.lineToScope = EmptyDict
    /\ info.scopeToLocals = EmptyDict
    /\ info.globalDeclarations = EmptyDict
    /\ "error" \in DOMAIN info /\ info.error # ""

(* C27: scope analysis does not throw past its boundary.  For a source that
   does not parse, run_with_trace can always proceed past analyze_scopes;
   the scope info it then holds, returns and runAndTrace delivers has empty
   lineToScope, scopeToLocals and globalDeclarations and an error text; and
   the run goes on: exec is reached, run_with_trace can return, and the
   call resolves with a result bundle. *)
C27_AnalysisBoundary ==
    ~user_code.syntaxOK =>
       /\ phase = "loaded" => ENABLED run_with_trace
       /\ phase \in {"exec", "returned"} => ScopeError(scope_info)
       /\ phase = "exec" => ENABLED run_with_trace_return
       /\ phase = "returned" => ScopeError(jsonString.scopeInfo) /\ ENABLED runAndTraceResolve
       /\ (Resolved /\ phase = "idle" /\ preprocessCode(code) = user_code) =>
              ScopeError(result.scopeInfo)

\* The run of the source that does not parse has resolved: the bundle holds
\* the empty scope info with its error, and the error message of exec.
C27_Witness ==
    /\ code = "syntax" /\ Resolved
    /\ ScopeError(result.scopeInfo)
    /\ ~result.errorMessage.null
    /\ result.traceData = EmptyDict

\* The scope info of a program that parsed has been computed.
Analysed ==
    phase \in {"exec", "returned"} /\ user_code.syntaxOK /\ "error" \notin DOMAIN scope_info

\* The function definitions of the tree, at any depth.
AllDefs(tree) == {i \in 1..Len(tree) : tree[i].type = "FunctionDef"}
Covering(tree, l) == {i \in AllDefs(tree) : tree[i].lineno <= l /\ l <= tree[i].end_lineno}

(* C28: line-to-scope map.  Once a program is analysed, every line in the
   range of a function definition, at whatever depth of the tree, maps to
   the name of the innermost definition containing it, and every line 1..N
   outside all definitions maps to "global". *)
C28_LineToScope ==
    Analysed =>
       \A l \in 1..user_code.nlines :
          /\ l \in DOMAIN scope_info.lineToScope
          /\ scope_info.lineToScope[l] =
                IF Covering(user_code.tree, l) = {} THEN "global"
                ELSE user_code.tree[Max(Covering(user_code.tree, l))].name

\* The nodes of f's own body: below f, and below no function nested in f.
OwnNodes(tree, n) ==
    {i \in walk(tree, n) :
        i # n /\ \A m \in AllDefs(tree) : (m # n /\ m # i /\ Within(tree, m, n)) => ~Within(tree, i, m)}
Binders == {"Assign", "AugAssign", "For", "NamedExpr"}
\* The names f's own body binds, and the names it declares global.
OwnBound(tree, n) ==
    UNION {Range(tree[i].targets) : i \in {j \in OwnNodes(tree, n) : tree[j].type \in Binders}}
OwnGlobal(tree, n) ==
    UNION {Range(tree[i].names) : i \in {j \in OwnNodes(tree, n) : tree[j].type = "Global"}}
\* The definition an entry of scopeToLocals stands for.
DefOf(tree, f) == Max({i \in AllDefs(tree) : tree[i].name = f})

(* C29: locals completeness.  For every analysed function f, scopeToLocals[f]
   contains every formal parameter of f and every name f's own body binds
   by an assignment (each of its targets), an augmented assignment, a loop
   target or an assignment expression, except the names f declares global. *)
C29_LocalsComplete ==
    Analysed =>
       \A f \in DOMAIN scope_info.scopeToLocals \ {"global"} :
          (Range(user_code.tree[DefOf(user_code.tree, f)].args)
             \cup (OwnBound(user_code.tree, DefOf(user_code.tree, f))
                     \ OwnGlobal(user_code.tree, DefOf(user_code.tree, f))))
          \subseteq scope_info.scopeToLocals[f]

(* C30: locals precision.  For every analysed function f, scopeToLocals[f]
   contains only f's parameters and names f's own body binds, so a name
   bound only inside a function nested in f is not in it. *)
C30_LocalsPrecise ==
    Analysed =>
       \A f \in DOMAIN scope_info.scopeToLocals \ {"global"} :
          scope_info.scopeToLocals[f] \subseteq
             Range(user_code.tree[DefOf(user_code.tree, f)].args)
                \cup OwnBound(user_code.tree, DefOf(user_code.tree, f))

(* C31: the trace is independent of scope analysis.  When a run of a source
   resolves with a scope info other than the one an earlier run of the same
   source delivered (the analysis succeeded in one and degraded to the empty
   info in the other), the two runs' traceData and errorMessage are the
   same; and no step of the tracer changes scope_info. *)
C31_TraceIgnoresScopes ==
    [][/\ (runAndTraceResolve /\ delivered[code].status = "resolved"
           /\ result'.scopeInfo # delivered[code].scopeInfo) =>
             /\ result'.traceData = delivered[code].traceData
             /\ result'.errorMessage = delivered[code].errorMessage
       /\ TracerStep => scope_info' = scope_info]_vars

\* x = 1 / y = <sum at the recursion limit> was run with the analysis
\* succeeding; it has been run again, the analysis degraded, and the run has
\* returned the same, complete trace.
C31_Witness ==
    /\ code = "deep" /\ phase = "returned"
    /\ ScopeError(jsonString.scopeInfo)
    /\ delivered["deep"].status = "resolved"
    /\ ~ScopeError(delivered["deep"].scopeInfo)
    /\ jsonString.traceData = delivered["deep"].traceData
    /\ Values(History(jsonString.traceData, "global::y")) = <<"3">>
    /\ jsonString.errorMessage.null

-----------------------------------------------------------------------------
(* The page and its runs *)

(* C32: no stale trace.  When a run of the page completes and the page shows
   its trace data (hasRun with a non-empty allTraceData), the run was given
   the text that is in the editor by then, also when the text was edited
   while the run was in flight. *)
C32_NoStaleTrace ==
    [][(running /\ ~running' /\ hasRun' /\ allTraceData' # EmptyDict)
          => code' = editorText']_vars

(* C33: every run started from the page settles into running = false and
   hasRun = true: the step in which the awaited call settles sets both, and
   a run in flight leads to such a state.  While a run is in flight trace
   data stays empty and errorMessage null, and the step of a rejection
   leaves them so and sets the output to "Error: " and the message. *)
C33_RunSettles ==
    /\ [][(running /\ ~running') => hasRun']_vars
    /\ [](running => allTraceData = EmptyDict /\ errorMessage = Null)
    /\ [][(running /\ ~running' /\ result'.status = "rejected") =>
             /\ allTraceData' = EmptyDict
             /\ errorMessage' = Null
             /\ output' = <<"Error: " \o exc.etype>>]_vars
    /\ running ~> (~running /\ hasRun)

\* The run of 'x = 1 / sys.exit()' was rejected: the page is no longer
\* running, hasRun is set, nothing is traced and the output is the message.
C33_Witness ==
    /\ code = "sysexit" /\ result.status = "rejected"
    /\ ~running /\ hasRun
    /\ allTraceData = EmptyDict
    /\ errorMessage = Null
    /\ output = <<"Error: SystemExit">>

\* What renderDiagram shows for the page's state once its render has settled.
Shown ==
    LET d == renderDiagram(hasRun, allTraceData, errorMessage, activeVar,
                           [diagramRef |-> Cleared, rendering |-> <<>>])
    IN  IF d.rendering = <<>> THEN {d.diagramRef}
        ELSE {Svg(d.rendering[1]), MermaidError(d.rendering[1])}

(* C34: diagram consistency.  Once no render of the diagram is pending, the
   pane holds what renderDiagram shows for the current active variable, trace
   data, error message and hasRun: a render that completes late has not
   replaced the placeholder or the diagram of a later call. *)
C34_DiagramConsistent ==
    rendering = <<>> => diagramRef \in Shown

-----------------------------------------------------------------------------
(* The tracer's bookkeeping *)

(* C35: bookkeeping consistency.  In every reachable state prev_vars and
   trace_data have the same keys, every history is non-empty, and
   prev_vars[key] is the value of the last event of trace_data[key]. *)
C35_Bookkeeping ==
    /\ DOMAIN prev_vars = DOMAIN trace_data
    /\ \A key \in DOMAIN trace_data :
          /\ trace_data[key] # <<>>
          /\ prev_vars[key] = Last(trace_data[key]).value

\* The loop is running: x has been recorded three times and prev_vars holds
\* its last recorded value.
C35_Witness ==
    /\ code = "loop" /\ phase = "exec"
    /\ Values(History(trace_data, "global::x")) = <<"0", "1", "3">>
    /\ prev_vars["global::x"] = "3"

(* C36: locals are observed in their own frame.  Every event whose function
   is a function name f has assignedIn = f; only events of function "global"
   have an assignedIn that differs from it. *)
C36_LocalsInOwnFrame ==
    \A key \in DOMAIN trace_data : \A e \in Events(trace_data[key]) :
       e.function # "global" => e.assignedIn = e.function

\* x = 1 / def g(a): pass / def f(): global x; g(x := 5) / f() has completed:
\* g's parameter was recorded in g, and the change of the global x was seen
\* first in g.
C36_Witness ==
    /\ code = "walruscall" /\ Resolved
    /\ \E e \in Events(History(result.traceData, "g::a")) :
          e.function = "g" /\ e.assignedIn = "g"
    /\ \E e \in Events(History(result.traceData, "global::x")) :
          e.function = "global" /\ e.assignedIn = "g"

-----------------------------------------------------------------------------
(* C37: one change of a module-level variable is recorded once, as claimed.
   When the last event of "global::n" was recorded by another frame than the
   one being captured and the module-level n still has the value of that
   event, the capture appends no event to "global::n"; and no capture appends
   more than one event to it. *)
C37_RecordedOnce ==
    [][\A n \in Names :
          LET key == ScopedKey("global", n)
              h == History(trace_data, key)
          IN /\ Len(History(trace_data', key)) <= Len(h) + 1
             /\ (/\ CapturePoint /\ h # <<>>
                 /\ Last(h).assignedIn # get_func_name(Top)
                 /\ n \in DOMAIN globals
                 /\ safe_repr(globals[n]) = Last(h).value)
                   => ~Appended(key)]_vars

-----------------------------------------------------------------------------
(* The lines of a result *)

\* The line numbers of the text submitted as src.
LinesOf(src) == 1..Sources[src].nlines

EventLines(traceData) ==
    UNION {{e.line : e \in Events(traceData[key])} : key \in DOMAIN traceData}

(* C38: line numbers refer to the submitted text, as claimed.  In every result
   runAndTrace resolves with, the line of every event and every key of
   lineToScope and of globalDeclarations is a line number of the source that
   was submitted, also when the source calls input(). *)
C38_LinesOfSource ==
    (Resolved /\ phase = "idle") =>
       /\ EventLines(result.traceData) \subseteq LinesOf(code)
       /\ DOMAIN result.scopeInfo.lineToScope \subseteq LinesOf(code)
       /\ DOMAIN result.scopeInfo.globalDeclarations \subseteq LinesOf(code)

-----------------------------------------------------------------------------
(* C39: final values are captured, as claimed.  When run_with_trace returns
   after a program that ran to its end without failure, every module-level
   variable that is not excluded and holds a non-callable value has a
   "global::name" history whose last event carries the representation of
   that value. *)
C39_FinalValues ==
    (phase = "returned" /\ jsonString.errorMessage.null /\ user_code.syntaxOK) =>
       \A n \in DOMAIN globals :
          (is_user_var(n) /\ ~is_function_raises(globals[n]) /\ ~is_function(globals[n])) =>
             /\ History(jsonString.traceData, ScopedKey("global", n)) # <<>>
             /\ Last(History(jsonString.traceData, ScopedKey("global", n))).value
                   = safe_repr(globals[n])

====
